---------------------------- MODULE Spec2Model ----------------------------
(***************************************************************************)
(* A model of multiply-core's Sentinel-2 observations (s2_observations.py) *)
(* and of the resampling choice of the reprojection engine (reproject.py). *)
(*                                                                         *)
(* Numbers that the code holds as floats are modelled exactly, as decimal  *)
(* rationals n/d * 10^e, with the two IEEE values the code can produce by  *)
(* dividing by zero (inf, nan).  File names are sequences of characters,   *)
(* so that Python's substring test and split are computed, not assumed.    *)
(***************************************************************************)
EXTENDS Integers, Sequences, FiniteSets, TLC

VARIABLES
    disk,            \* url -> file name -> raster (or Missing): the product folders
    vrtFiles,        \* vrt path -> the source list it was built from (or Absent)
    buildCount,      \* vrt path -> number of BuildVRT calls made for it
    objs,            \* slot -> S2Observations instance (or Unconstructed)
    NO_DATA_VALUES,  \* the module-level list every instance's _no_data_values aliases
    ret,             \* what the last call returned or raised
    emu,             \* the last emulator selection: its inputs and its outcome
    warp,            \* the last warp: the reprojection, the dataset, the mode used
    gdalMajor,       \* the major version of the installed gdal (gdalversion[0])
    pc,              \* thread -> position inside _get_raw_data_set_from_name
    found,           \* thread -> the rasters its glob loop has collected
    registry,        \* the observations factory's creators, in registration order
    fileRefs         \* the list of file references the factory's caller holds

vars == <<disk, vrtFiles, buildCount, objs, NO_DATA_VALUES, ret, emu, warp, gdalMajor, pc, found,
         registry, fileRefs>>

(***************************************************************************)
(* Bounds of the model.                                                    *)
(***************************************************************************)
NPix == 2            \* pixels of a raster
MaxBuilds == 2       \* cap of the build counter of one vrt path

\* Python's None where an object is expected, and where a string is expected
None == [none |-> TRUE]
Unset == "None"
\* no exception was raised
NoRaise == "returned"
Missing == <<>>
Absent == <<>>
Unconstructed == [unconstructed |-> TRUE]

Range(s) == {s[i] : i \in DOMAIN s}

Min(S) == CHOOSE x \in S : \A y \in S : x <= y

Abs(x) == IF x < 0 THEN -x ELSE x

(***************************************************************************)
(* Exact decimal arithmetic: [n, d, e] is n/d * 10^e, in lowest terms and  *)
(* with no factor 10 left in n or d, so that equal numbers are equal       *)
(* records.  d = 0 marks the IEEE specials: Inf (n = 1), -Inf (n = -1) and *)
(* NaN (n = 0).                                                            *)
(***************************************************************************)
Sign(k) == IF k > 0 THEN 1 ELSE IF k < 0 THEN -1 ELSE 0

RECURSIVE GCD(_, _)
GCD(a, b) == IF b = 0 THEN a ELSE GCD(b, a % b)

RECURSIVE StripN(_, _, _)
StripN(n, d, e) ==
    IF n # 0 /\ n % 10 = 0 THEN StripN(n \div 10, d, e + 1) ELSE [n |-> n, d |-> d, e |-> e]

\* the factors 2 and 5 of the denominator go into the exponent, so that equal
\* numbers have one representation
RECURSIVE StripD(_, _, _)
StripD(n, d, e) ==
    IF d % 2 = 0 THEN StripD(n * 5, d \div 2, e - 1)
    ELSE IF d % 5 = 0 THEN StripD(n * 2, d \div 5, e - 1)
    ELSE StripN(n, d, e)

Dec(n, d, e) ==
    IF d = 0 THEN [n |-> Sign(n), d |-> 0, e |-> 0]
    ELSE IF n = 0 THEN [n |-> 0, d |-> 1, e |-> 0]
    ELSE LET g == GCD(Abs(n), d) IN StripD(n \div g, d \div g, e)

DecInt(k) == Dec(k, 1, 0)
Inf == [n |-> 1, d |-> 0, e |-> 0]
NegInf == [n |-> -1, d |-> 0, e |-> 0]
NaN == [n |-> 0, d |-> 0, e |-> 0]
Zero == DecInt(0)
One == DecInt(1)

IsFinite(a) == a.d # 0

RECURSIVE Pow10(_)
Pow10(k) == IF k = 0 THEN 1 ELSE 10 * Pow10(k - 1)


DecMul(a, b) ==
    IF IsFinite(a) /\ IsFinite(b) THEN Dec(a.n * b.n, a.d * b.d, a.e + b.e)
    ELSE [n |-> Sign(a.n) * Sign(b.n), d |-> 0, e |-> 0]

\* IEEE division as numpy does it on float arrays: x/0 is +-inf, 0/0 is nan.
DecDiv(a, b) ==
    IF ~IsFinite(a) \/ ~IsFinite(b) THEN
        IF IsFinite(a) /\ b.n # 0 THEN Zero
        ELSE IF IsFinite(b) /\ a.n # 0 THEN [n |-> a.n * (IF b.n < 0 THEN -1 ELSE 1), d |-> 0, e |-> 0]
        ELSE NaN
    ELSE IF b.n = 0 THEN [n |-> Sign(a.n), d |-> 0, e |-> 0]
    ELSE Dec(a.n * b.d * Sign(b.n), a.d * Abs(b.n), a.e - b.e)

DecSquare(a) == DecMul(a, a)

\* a - b, for finite a and b: both brought to the smaller exponent.
DecSub(a, b) ==
    LET m == IF a.e < b.e THEN a.e ELSE b.e
    IN  Dec(a.n * Pow10(a.e - m) * b.d - b.n * Pow10(b.e - m) * a.d, a.d * b.d, m)

DecAdd(a, b) == DecSub(a, [b EXCEPT !.n = -b.n])

DecAbs(a) == [a EXCEPT !.n = Abs(a.n)]

\* a < b as IEEE compares: false when either is nan
DecLess(a, b) ==
    IF a = NaN \/ b = NaN \/ a = b THEN FALSE
    ELSE IF a = NegInf \/ b = Inf THEN TRUE
    ELSE IF a = Inf \/ b = NegInf THEN FALSE
    ELSE DecSub(a, b).n < 0

DecPositive(a) == a.n > 0


(***************************************************************************)
(* Python's sequence operations, as the code uses them.                    *)
(***************************************************************************)
\* seq[i] is defined for -len <= i < len (a negative index counts from the end)
PyIndexOk(seq, i) == i >= -Len(seq) /\ i < Len(seq)

PyAt(seq, i) == IF i >= 0 THEN seq[i + 1] ELSE seq[Len(seq) + i + 1]

\* sub in s
Contains(sub, s) ==
    \E i \in 0..(Len(s) - Len(sub)) : SubSeq(s, i + 1, i + Len(sub)) = sub

\* s.split(ch)[0]
SplitFirst(s, ch) ==
    IF \E i \in 1..Len(s) : s[i] = ch
    THEN SubSeq(s, 1, Min({i \in 1..Len(s) : s[i] = ch}) - 1)
    ELSE s

\* seq.index(x): the first position (0-based); the caller checks x is in seq
IndexOf(seq, x) == Min({i \in 1..Len(seq) : seq[i] = x}) - 1

(***************************************************************************)
(* The module constants of s2_observations.py.                             *)
(***************************************************************************)
SurTif == <<"_", "s", "u", "r", ".", "t", "i", "f">>

SurName(band) == band \o SurTif

EMULATOR_BAND_MAP == <<2, 3, 4, 5, 6, 7, 8, 9, 12, 13>>

BAND_NAMES ==
    << SurName(<<"B", "0", "2">>), SurName(<<"B", "0", "3">>), SurName(<<"B", "0", "4">>),
       SurName(<<"B", "0", "5">>), SurName(<<"B", "0", "6">>), SurName(<<"B", "0", "7">>),
       SurName(<<"B", "0", "8">>), SurName(<<"B", "8", "A">>), SurName(<<"B", "0", "9">>),
       SurName(<<"B", "1", "2">>), SurName(<<"B", "0", "1">>), SurName(<<"B", "1", "0">>),
       SurName(<<"B", "1", "1">>) >>

DefaultNoDataValues == [i \in 1..Len(BAND_NAMES) |-> Zero]

BAND_PROB_THRESHOLD == 5

CLOUD_MASK_NAME == <<"c", "l", "o", "u", "d", ".", "t", "i", "f">>

SUN_ANGLES_NAME == <<"S", "A", "A", "_", "S", "Z", "A", ".", "t", "i", "f">>

VIEW_ANGLES_NAME ==
    <<"V", "A", "A", "_", "V", "Z", "A", "_", "B", "0", "5", ".", "t", "i", "f">>

\* the digital-number-to-reflectance scale of get_band_data and read_granule
ReflectanceScale == 10000

\* the relative uncertainty of _get_uncertainty: 0.05
RelativeUncertainty == Dec(5, 1, -2)

\* band_map of read_granule
GranuleBandMap ==
    << <<"B", "0", "1">>, <<"B", "0", "2">>, <<"B", "0", "3">>, <<"B", "0", "4">>,
       <<"B", "0", "5">>, <<"B", "0", "6">>, <<"B", "0", "7">>, <<"B", "0", "8">>,
       <<"B", "8", "A">>, <<"B", "0", "9">>, <<"B", "1", "0">>, <<"B", "1", "1">>,
       <<"B", "1", "2">> >>

\* sel_bands of read_granule (0-based positions in band_map)
SelBands == <<1, 2, 3, 4, 5, 6, 7, 8>>

FileNames ==
    Range(BAND_NAMES) \cup {CLOUD_MASK_NAME, SUN_ANGLES_NAME, VIEW_ANGLES_NAME}

\* metadata_file_names of _get_metadata_file, in the order they are tried
MetadataFileNames ==
    << <<"m", "e", "t", "a", "d", "a", "t", "a", ".", "x", "m", "l">>,
       <<"M", "T", "D", "_", "T", "L", ".", "x", "m", "l">> >>

\* the names a product folder may hold a file under
FolderFiles == FileNames \cup Range(MetadataFileNames)

(***************************************************************************)
(* The product folders.  A url is a path, a sequence of components; the    *)
(* folder of a url holds at most one raster per file name.                 *)
(***************************************************************************)
UrlA == <<"data", "a">>
UrlB == <<"data", "b">>
UrlC == <<"data", "c">>
UrlD == <<"data", "d">>
Urls == {UrlA, UrlB, UrlC, UrlD}

Pixels == 1..NPix

\* glob.glob('{url}/*{band_name}*'): the files of the folder whose name contains band_name
Glob(dk, url, band_name) ==
    {f \in DOMAIN dk[url] : dk[url][f] # Missing /\ Contains(band_name, f)}

\* data_set_urls[0]
GlobFirst(dk, url, band_name) ==
    <<url, CHOOSE f \in Glob(dk, url, band_name) : TRUE>>

\* data_validation.get_valid_type and get_relative_path: the S2 L2 layout has no
\* relative path, the AWS layout's relative path is the tile folder of the url
get_valid_type(url) == IF url = UrlC THEN "AWS_S2_L2" ELSE "S2L2"

get_relative_path(url, data_type) ==
    IF data_type = "AWS_S2_L2" THEN <<url[Len(url)]>> ELSE <<>>

VrtName(band_name) == SplitFirst(band_name, ".") \o <<".", "v", "r", "t">>

\* lines 166-170: the path of the mosaic, derived from the FIRST file reference only
VrtFileName(file_refs, data_type, band_name) ==
    LET data_set_base_url == file_refs[1]
        relative_path == get_relative_path(data_set_base_url, data_type)
    IN  IF relative_path = <<>>
        THEN SubSeq(data_set_base_url, 1, Len(data_set_base_url) - 1)
                 \o <<VrtName(band_name)>>
        ELSE SubSeq(data_set_base_url, 1, Len(data_set_base_url) - Len(relative_path))
                 \o <<VrtName(band_name)>>

VrtPaths == {<<"data", VrtName(f)>> : f \in FileNames}

\* lines 173-177: the first match of every file reference that has one, in order
RECURSIVE CollectSources(_, _, _)
CollectSources(dk, file_refs, band_name) ==
    IF file_refs = <<>> THEN <<>>
    ELSE LET rest == CollectSources(dk, Tail(file_refs), band_name)
         IN  IF Glob(dk, Head(file_refs), band_name) # {}
             THEN <<GlobFirst(dk, Head(file_refs), band_name)>> \o rest
             ELSE rest

\* What gdal reads from a mosaic: sources are drawn in list order, so where
\* several cover a pixel the last one listed shows.
MosaicArray(dk, sources) == dk[sources[Len(sources)][1]][sources[Len(sources)][2]]



(***************************************************************************)
(* reproject.py.  A spatial reference system is modelled by the length of  *)
(* its unit on each axis: a point's coordinates in a system are its base   *)
(* coordinates times the system's scale on that axis.  The warp kernel is  *)
(* gdal's; the model keeps the pixel values and records the grid and the   *)
(* resampling mode the warp was asked for.                                 *)
(***************************************************************************)
SrsNames == {"utm", "fine", "geo"}

SrsScale(srs) ==
    IF srs = "utm" THEN <<1, 1>> ELSE IF srs = "fine" THEN <<2, 2>> ELSE <<1, 3>>

\* osr.CoordinateTransformation(source, target).TransformPoint(x, y)
TransformPoint(source, target, x, y) ==
    << DecDiv(DecMul(x, DecInt(SrsScale(target)[1])), DecInt(SrsScale(source)[1])),
       DecDiv(DecMul(y, DecInt(SrsScale(target)[2])), DecInt(SrsScale(source)[2])) >>

RECURSIVE transform_coordinates(_, _, _, _)
transform_coordinates(source, target, coords, gdal) ==
    IF Len(coords) < 2 THEN <<>>
    ELSE LET target_coord == TransformPoint(source, target, coords[1], coords[2])
             rest == transform_coordinates(source, target,
                                           SubSeq(coords, 3, Len(coords)), gdal)
         IN  IF gdal >= 3
             THEN <<target_coord[2], target_coord[1]>> \o rest
             ELSE <<target_coord[1], target_coord[2]>> \o rest

get_spatial_reference_system_from_dataset(dataset) == dataset.srs

\* geo_transform[1], -geo_transform[5]
get_target_resolutions(dataset) ==
    <<dataset.geo_transform[2], DecSub(Zero, dataset.geo_transform[6])>>

\* sqrt(square(a - b)) is |a - b|
DistMeasure(source_coordinates, x_res, y_res) ==
    LET x_dist == DecAbs(DecSub(source_coordinates[1], source_coordinates[3]))
        y_dist == DecAbs(DecSub(source_coordinates[2], source_coordinates[4]))
    IN  DecMul(DecDiv(x_dist, x_res), DecDiv(y_dist, y_res))

\* Mutant: equal densities count as sampling up (>= for >).
NeedToSampleUpOrEqual(dataset, bounds, x_res, y_res, bounds_srs, destination_srs, gdal) ==
    LET source_srs == get_spatial_reference_system_from_dataset(dataset)
        source_resolutions == get_target_resolutions(dataset)
        source_resolution_measure ==
            DistMeasure(transform_coordinates(bounds_srs, source_srs, bounds, gdal),
                        source_resolutions[1], source_resolutions[2])
        dest_resolution_measure ==
            DistMeasure(transform_coordinates(bounds_srs, destination_srs, bounds, gdal),
                        x_res, y_res)
    IN  ~DecLess(dest_resolution_measure, source_resolution_measure)

NeedToSampleUp(dataset, bounds, x_res, y_res, bounds_srs, destination_srs, gdal) ==
    LET source_srs == get_spatial_reference_system_from_dataset(dataset)
        bounds_in_source_coordinates ==
            transform_coordinates(bounds_srs, source_srs, bounds, gdal)
        source_resolutions == get_target_resolutions(dataset)
        source_resolution_measure ==
            DistMeasure(bounds_in_source_coordinates,
                        source_resolutions[1], source_resolutions[2])
        bounds_in_dest_coordinates ==
            transform_coordinates(bounds_srs, destination_srs, bounds, gdal)
        dest_resolution_measure == DistMeasure(bounds_in_dest_coordinates, x_res, y_res)
    IN  DecLess(source_resolution_measure, dest_resolution_measure)

GetResampling(dataset, bounds, x_res, y_res, bounds_srs, destination_srs, gdal) ==
    IF NeedToSampleUp(dataset, bounds, x_res, y_res, bounds_srs, destination_srs, gdal)
    THEN "bilinear"
    ELSE "average"

\* Reprojection.__init__
NewReprojection(bounds, x_res, y_res, destination_srs, bounds_srs, resampling_mode) ==
    [bounds |-> bounds, x_res |-> x_res, y_res |-> y_res,
     destination_srs |-> destination_srs, resampling_mode |-> resampling_mode,
     bounds_srs |-> IF bounds_srs = Unset THEN destination_srs ELSE bounds_srs]

\* gdal.Warp('', dataset, options=warp_options)
Warp(dataset, bounds, bounds_srs, x_res, y_res, destination_srs, resampling_mode) ==
    [array |-> dataset.array, srs |-> destination_srs,
     geo_transform |-> <<bounds[1], x_res, Zero, bounds[4], Zero, DecSub(Zero, y_res)>>,
     outputBounds |-> bounds, outputBoundsSRS |-> bounds_srs,
     resampleAlg |-> resampling_mode]

\* Reprojection.reproject
Reproject(rp, dataset, gdal) ==
    LET resampling_mode ==
            IF rp.resampling_mode = Unset
            THEN GetResampling(dataset, rp.bounds, rp.x_res, rp.y_res, rp.bounds_srs,
                               rp.destination_srs, gdal)
            ELSE rp.resampling_mode
    IN  Warp(dataset, rp.bounds, rp.bounds_srs, rp.x_res, rp.y_res, rp.destination_srs,
             resampling_mode)

\* reproject_dataset
ReprojectDataset(dataset, bounds, x_res, y_res, destination_srs, bounds_srs_in, resampling_mode_in, gdal) ==
    LET bounds_srs == IF bounds_srs_in = Unset THEN destination_srs ELSE bounds_srs_in
        resampling_mode ==
            IF resampling_mode_in = Unset
            THEN GetResampling(dataset, bounds, x_res, y_res, bounds_srs, destination_srs,
                               gdal)
            ELSE resampling_mode_in
    IN  Warp(dataset, bounds, bounds_srs, x_res, y_res, destination_srs, resampling_mode)


(***************************************************************************)
(* s2_observations.py: locating and reading a band's raster.               *)
(*                                                                         *)
(* Every operator that may touch the mosaic files returns an outcome       *)
(*   [raised, value, vrt, built]                                           *)
(* raised: NoRaise or the exception; value: what is returned; vrt: the mosaic *)
(* files after the call; built: the paths BuildVRT was called for.         *)
(***************************************************************************)
Outcome(raised, value, vrt, built) ==
    [raised |-> raised, value |-> value, vrt |-> vrt, built |-> built]

\* gdal.Open of a raster of the product folders: all share one grid
OpenRaster(array) ==
    [array |-> array, srs |-> "utm",
     geo_transform |-> <<Zero, One, Zero, DecInt(NPix), Zero, DecInt(-1)>>,
     outputBounds |-> None, outputBoundsSRS |-> Unset, resampleAlg |-> Unset]

\* Mutant: the mosaic is built whether or not its file exists.
RawDataSetFromNameRebuilding(o, dk, vf, band_name) ==
    IF Len(o.file_refs) > 1 THEN
        LET vrt_file_name == VrtFileName(o.file_refs, o.data_type, band_name)
            data_set_base_urls == CollectSources(dk, o.file_refs, band_name)
        IN  IF Len(data_set_base_urls) = 0
            THEN Outcome("ValueError", None, vf, <<>>)
            ELSE Outcome(NoRaise, OpenRaster(MosaicArray(dk, data_set_base_urls)),
                         [vf EXCEPT ![vrt_file_name] = data_set_base_urls],
                         <<vrt_file_name>>)
    ELSE
        LET data_set_base_url == o.file_refs[1]
        IN  IF Glob(dk, data_set_base_url, band_name) = {}
            THEN Outcome("ValueError", None, vf, <<>>)
            ELSE Outcome(NoRaise,
                         OpenRaster(MosaicArray(dk, <<GlobFirst(dk, data_set_base_url,
                                                                 band_name)>>)),
                         vf, <<>>)

\* _get_raw_data_set_from_name
RawDataSetFromName(o, dk, vf, band_name) ==
    IF Len(o.file_refs) > 1 THEN
        LET vrt_file_name == VrtFileName(o.file_refs, o.data_type, band_name)
        IN  IF vf[vrt_file_name] = Absent THEN
                LET data_set_base_urls == CollectSources(dk, o.file_refs, band_name)
                IN  IF Len(data_set_base_urls) = 0
                    THEN Outcome("ValueError", None, vf, <<>>)
                    ELSE Outcome(NoRaise, OpenRaster(MosaicArray(dk, data_set_base_urls)),
                                 [vf EXCEPT ![vrt_file_name] = data_set_base_urls],
                                 <<vrt_file_name>>)
            ELSE Outcome(NoRaise, OpenRaster(MosaicArray(dk, vf[vrt_file_name])), vf, <<>>)
    ELSE
        LET data_set_base_url == o.file_refs[1]
        IN  IF Glob(dk, data_set_base_url, band_name) = {}
            THEN Outcome("ValueError", None, vf, <<>>)
            ELSE Outcome(NoRaise,
                         OpenRaster(MosaicArray(dk, <<GlobFirst(dk, data_set_base_url,
                                                                 band_name)>>)),
                         vf, <<>>)

\* lines 158-160: the data set, reprojected if the instance has a reprojection, as array
ReadAsArray(o, data_set, gdal) ==
    IF data_set.raised # NoRaise THEN data_set
    ELSE IF o.reprojection # None
    THEN [data_set EXCEPT !.value = Reproject(o.reprojection, data_set.value, gdal).array]
    ELSE [data_set EXCEPT !.value = data_set.value.array]

\* _get_raw_band_data_from_name
RawBandDataFromName(o, dk, vf, band_name, gdal) ==
    ReadAsArray(o, RawDataSetFromName(o, dk, vf, band_name), gdal)

\* _get_raw_band_data
RawBandData(o, dk, vf, band_index, gdal) ==
    IF band_index > Len(BAND_NAMES) THEN Outcome("ValueError", None, vf, <<>>)
    ELSE IF ~PyIndexOk(BAND_NAMES, band_index) THEN Outcome("IndexError", None, vf, <<>>)
    ELSE RawBandDataFromName(o, dk, vf, PyAt(BAND_NAMES, band_index), gdal)

(***************************************************************************)
(* get_band_data and its helpers.  A 2-d array is held flattened, pixel by *)
(* pixel; the sparse n x n matrix is a function of (row, column).          *)
(***************************************************************************)
\* _get_uncertainty
GetUncertainty(rho_surface, mask) ==
    LET r_mat == [p \in Pixels |->
                     IF mask[p] THEN DecMul(rho_surface[p], RelativeUncertainty) ELSE Zero]
    IN  [rc \in Pixels \X Pixels |->
            IF rc[1] = rc[2] THEN DecDiv(One, DecSquare(r_mat[rc[1]])) ELSE Zero]

\* the key "S2A_MSI_{:02d}" of an emulator set, and the entry stored under it
EmulatorKey(band_number) == <<"S2A_MSI", band_number>>

\* Mutant: the emulator set is indexed without the test for None.
BandEmulatorUnguarded(o, band_index) ==
    IF PyIndexOk(EMULATOR_BAND_MAP, band_index)
    THEN [raised |-> NoRaise,
          value |-> <<o.band_emulators, EmulatorKey(PyAt(EMULATOR_BAND_MAP, band_index))>>]
    ELSE [raised |-> "IndexError", value |-> None]

\* _get_band_emulator
BandEmulator(o, band_index) ==
    IF o.band_emulators # None THEN
        IF PyIndexOk(EMULATOR_BAND_MAP, band_index)
        THEN [raised |-> NoRaise,
              value |-> <<o.band_emulators, EmulatorKey(PyAt(EMULATOR_BAND_MAP, band_index))>>]
        ELSE [raised |-> "IndexError", value |-> None]
    ELSE [raised |-> NoRaise, value |-> None]

\* Mutant: zero counts as valid (>= for >).
ValidMaskNonNegative(data) == [p \in Pixels |-> data[p] >= 0]

\* mask = data > 0
ValidMask(data) == [p \in Pixels |-> data[p] > 0]

\* np.where(mask, data / 10000., no_data_value)
ScaledData(data, mask, no_data_value) ==
    [p \in Pixels |->
        IF mask[p] THEN DecDiv(DecInt(data[p]), DecInt(ReflectanceScale)) ELSE no_data_value]

\* lines 200-208, given the mask, the scaled data and the emulator
ObservationData(raw, mask, data, band_emulator, o, retrieve_uncertainty) ==
    IF band_emulator.raised # NoRaise
    THEN [raw EXCEPT !.raised = band_emulator.raised, !.value = None]
    ELSE [raw EXCEPT !.value =
             [observations |-> data,
              uncertainty |-> IF retrieve_uncertainty THEN GetUncertainty(data, mask)
                              ELSE None,
              mask |-> mask, metadata |-> o.meta_data_infos,
              emulator |-> band_emulator.value]]

\* lines 198-208, given the mask
MaskedBandData(raw, mask, o, nd, band_index, retrieve_uncertainty) ==
    ObservationData(raw, mask, ScaledData(raw.value, mask, PyAt(nd, band_index)),
                    BandEmulator(o, band_index), o, retrieve_uncertainty)

\* lines 197-208, given the raw data
BandDataOf(raw, o, nd, band_index, retrieve_uncertainty) ==
    IF raw.raised # NoRaise THEN raw
    ELSE MaskedBandData(raw, ValidMask(raw.value), o, nd, band_index, retrieve_uncertainty)

\* get_band_data
GetBandData(o, dk, vf, nd, band_index, retrieve_uncertainty, gdal) ==
    BandDataOf(RawBandData(o, dk, vf, band_index, gdal), o, nd, band_index,
               retrieve_uncertainty)

\* get_band_data_by_name: the first catalog name contained in band_name decides;
\* when none is, the loop ends and the method returns None
RECURSIVE GetBandDataByNameFrom(_, _, _, _, _, _, _, _)
GetBandDataByNameFrom(i, o, dk, vf, nd, band_name, retrieve_uncertainty, gdal) ==
    IF i >= Len(BAND_NAMES) THEN Outcome(NoRaise, None, vf, <<>>)
    ELSE IF Contains(PyAt(BAND_NAMES, i), band_name)
    THEN GetBandData(o, dk, vf, nd, i, retrieve_uncertainty, gdal)
    ELSE GetBandDataByNameFrom(i + 1, o, dk, vf, nd, band_name, retrieve_uncertainty, gdal)

\* Mutant: the last catalog name contained in band_name decides.
RECURSIVE GetBandDataByNameDownFrom(_, _, _, _, _, _, _, _)
GetBandDataByNameDownFrom(i, o, dk, vf, nd, band_name, retrieve_uncertainty, gdal) ==
    IF i < 0 THEN Outcome(NoRaise, None, vf, <<>>)
    ELSE IF Contains(PyAt(BAND_NAMES, i), band_name)
    THEN GetBandData(o, dk, vf, nd, i, retrieve_uncertainty, gdal)
    ELSE GetBandDataByNameDownFrom(i - 1, o, dk, vf, nd, band_name, retrieve_uncertainty,
                                   gdal)

GetBandDataByNameLast(o, dk, vf, nd, band_name, retrieve_uncertainty, gdal) ==
    GetBandDataByNameDownFrom(Len(BAND_NAMES) - 1, o, dk, vf, nd, band_name,
                              retrieve_uncertainty, gdal)

GetBandDataByName(o, dk, vf, nd, band_name, retrieve_uncertainty, gdal) ==
    GetBandDataByNameFrom(0, o, dk, vf, nd, band_name, retrieve_uncertainty, gdal)

\* set_no_data_value: the table after the call, or the exception
SetNoDataValue(nd, band, isStr, no_data_value) ==
    IF isStr /\ band \notin Range(BAND_NAMES) THEN [raised |-> "ValueError", table |-> nd]
    ELSE LET index == IF isStr THEN IndexOf(BAND_NAMES, band) ELSE band
         IN  IF ~PyIndexOk(nd, index) THEN [raised |-> "IndexError", table |-> nd]
             ELSE [raised |-> NoRaise,
                   table |-> [nd EXCEPT ![IF index >= 0 THEN index + 1
                                          ELSE Len(nd) + index + 1] = no_data_value]]


(***************************************************************************)
(* _prepare_band_emulators.  Emulator files are named                      *)
(* <prefix>_<VZA>_<SZA>_<RAA>.pkl; the names are formatted, sorted as      *)
(* Python sorts strings, split and parsed as the code does.                *)
(***************************************************************************)
AsciiOrder ==
    <<".", "0", "1", "2", "3", "4", "5", "6", "7", "8", "9", "_", "e", "k", "l", "m", "p", "u">>

Ord(c) == CHOOSE i \in DOMAIN AsciiOrder : AsciiOrder[i] = c

\* a < b for Python strings
RECURSIVE StrLess(_, _)
StrLess(a, b) ==
    IF b = <<>> THEN FALSE
    ELSE IF a = <<>> THEN TRUE
    ELSE IF Head(a) # Head(b) THEN Ord(Head(a)) < Ord(Head(b))
    ELSE StrLess(Tail(a), Tail(b))

\* list.sort() of a listing of distinct names
RECURSIVE SortNames(_)
SortNames(names) ==
    IF names = {} THEN <<>>
    ELSE LET first == CHOOSE a \in names : \A b \in names \ {a} : StrLess(a, b)
         IN  <<first>> \o SortNames(names \ {first})

\* s.split(ch)
RECURSIVE Split(_, _)
Split(s, ch) ==
    IF \E i \in 1..Len(s) : s[i] = ch
    THEN LET k == Min({i \in 1..Len(s) : s[i] = ch})
         IN  <<SubSeq(s, 1, k - 1)>> \o Split(SubSeq(s, k + 1, Len(s)), ch)
    ELSE <<s>>

Digits == <<"0", "1", "2", "3", "4", "5", "6", "7", "8", "9">>

DigitValue(c) == (CHOOSE i \in DOMAIN Digits : Digits[i] = c) - 1

\* float(token) of a token of decimal digits
RECURSIVE ParseNumber(_)
ParseNumber(token) ==
    IF token = <<>> THEN 0
    ELSE 10 * ParseNumber(SubSeq(token, 1, Len(token) - 1)) + DigitValue(token[Len(token)])

\* str(k) for k >= 0
RECURSIVE FormatNumber(_)
FormatNumber(k) ==
    IF k < 10 THEN <<Digits[k + 1]>>
    ELSE FormatNumber(k \div 10) \o <<Digits[(k % 10) + 1]>>

EmulatorFileName(vza, sza, raa) ==
    <<"e", "m", "u">> \o <<"_">> \o FormatNumber(vza) \o <<"_">> \o FormatNumber(sza)
        \o <<"_">> \o FormatNumber(raa) \o <<".", "p", "k", "l">>

FileVza(name) == DecInt(ParseNumber(PyAt(Split(name, "_"), -3)))

FileSza(name) == DecInt(ParseNumber(PyAt(Split(name, "_"), -2)))

FileRaa(name) == DecInt(ParseNumber(PyAt(Split(PyAt(Split(name, "_"), -1), "."), 0)))

\* np.argmin(np.abs(values - target)): the first position of the least distance (1-based)
ArgMinAbs(values, target) ==
    Min({i \in DOMAIN values :
            \A j \in DOMAIN values :
                ~DecLess(DecAbs(DecSub(values[j], target)), DecAbs(DecSub(values[i], target)))})

\* values == values[argmin]: the positions holding the chosen value
EqualToClosest(values, target) ==
    {i \in DOMAIN values : values[i] = values[ArgMinAbs(values, target)]}

\* Mutant: the LAST catalog entry of the intersection is taken instead of the first.
PrepareBandEmulatorsLastHit(listing, sza, saa, vza, vaa) ==
    IF Cardinality(listing) = 0 THEN [raised |-> NoRaise, value |-> None]
    ELSE
    LET emulator_files == SortNames(listing)
        raa == DecAbs(DecSub(vaa, saa))
        vzas == [i \in DOMAIN emulator_files |-> FileVza(emulator_files[i])]
        szas == [i \in DOMAIN emulator_files |-> FileSza(emulator_files[i])]
        raas == [i \in DOMAIN emulator_files |-> FileRaa(emulator_files[i])]
        hits == EqualToClosest(szas, sza) \cap EqualToClosest(vzas, vza)
                    \cap EqualToClosest(raas, raa)
    IN  IF hits = {} THEN [raised |-> "IndexError", value |-> None]
        ELSE [raised |-> NoRaise,
              value |-> [emulator_file |-> emulator_files[-Min({-i : i \in hits})]]]

\* Mutant: an empty intersection falls back to the first catalog entry.
PrepareBandEmulatorsFallback(listing, sza, saa, vza, vaa) ==
    IF Cardinality(listing) = 0 THEN [raised |-> NoRaise, value |-> None]
    ELSE
    LET emulator_files == SortNames(listing)
        raa == DecAbs(DecSub(vaa, saa))
        vzas == [i \in DOMAIN emulator_files |-> FileVza(emulator_files[i])]
        szas == [i \in DOMAIN emulator_files |-> FileSza(emulator_files[i])]
        raas == [i \in DOMAIN emulator_files |-> FileRaa(emulator_files[i])]
        hits == EqualToClosest(szas, sza) \cap EqualToClosest(vzas, vza)
                    \cap EqualToClosest(raas, raa)
    IN  [raised |-> NoRaise,
         value |-> [emulator_file |-> emulator_files[IF hits = {} THEN 1 ELSE Min(hits)]]]

\* _prepare_band_emulators, given the provider's listing of the folder
PrepareBandEmulators(listing, sza, saa, vza, vaa) ==
    IF Cardinality(listing) = 0 THEN [raised |-> NoRaise, value |-> None]
    ELSE
    LET emulator_files == SortNames(listing)
        raa == DecAbs(DecSub(vaa, saa))
        vzas == [i \in DOMAIN emulator_files |-> FileVza(emulator_files[i])]
        szas == [i \in DOMAIN emulator_files |-> FileSza(emulator_files[i])]
        raas == [i \in DOMAIN emulator_files |-> FileRaa(emulator_files[i])]
        e1 == EqualToClosest(szas, sza)
        e2 == EqualToClosest(vzas, vza)
        e3 == EqualToClosest(raas, raa)
        hits == e1 \cap e2 \cap e3
    IN  IF hits = {} THEN [raised |-> "IndexError", value |-> None]
        ELSE [raised |-> NoRaise, value |-> [emulator_file |-> emulator_files[Min(hits)]]]


(***************************************************************************)
(* S2Observations.__init__.  The metadata file of a product folder gives   *)
(* its mean angles; the auxiliary data provider lists an emulator folder.  *)
(***************************************************************************)
\* (sza, saa, vza, vaa) as the metadata file of a product folder gives them
MetadataAngles(url) ==
    IF url = UrlA THEN <<20, 100, 10, 106>>
    ELSE IF url = UrlB THEN <<22, 100, 12, 106>>
    ELSE <<24, 102, 14, 104>>

\* _get_metadata_file: the first of the candidate files that exists in the folder
RECURSIVE GetMetadataFileFrom(_, _, _)
GetMetadataFileFrom(dk, url, k) ==
    IF k > Len(MetadataFileNames) THEN [raised |-> "ValueError", value |-> None]
    ELSE IF dk[url][MetadataFileNames[k]] # Missing
    THEN [raised |-> NoRaise, value |-> <<url, MetadataFileNames[k]>>]
    ELSE GetMetadataFileFrom(dk, url, k + 1)

GetMetadataFile(dk, url) == GetMetadataFileFrom(dk, url, 1)

\* extract_angles_from_metadata_file: (sza, saa, vza, vaa) read from the file
ExtractAnglesFromMetadataFile(dk, filename) == dk[filename[1]][filename[2]]

RECURSIVE DecSum(_)
DecSum(values) == IF values = <<>> THEN Zero ELSE DecAdd(Head(values), DecSum(Tail(values)))

\* np.mean
Mean(values) == DecDiv(DecSum(values), DecInt(Len(values)))

MeanAngle(dk, file_refs, k) ==
    Mean([i \in DOMAIN file_refs |->
             DecInt(ExtractAnglesFromMetadataFile(
                        dk, GetMetadataFile(dk, file_refs[i]).value)[k])])

\* aux_data_provider.list_elements(emulator_folder, "*_[0-9]*_[0-9]*_[0-9]*.pkl")
ListElements(emulator_folder) ==
    IF emulator_folder = "emulators"
    THEN {EmulatorFileName(10, 20, 30), EmulatorFileName(10, 25, 35),
          EmulatorFileName(15, 20, 30)}
    ELSE IF emulator_folder = "sparse"
    THEN {EmulatorFileName(10, 25, 30), EmulatorFileName(15, 20, 30)}
    ELSE {}

\* S2Observations(file_refs, reprojection, emulator_folder): the instance, or the
\* exception the constructor ends in
NewInstance(file_refs, reprojection, meta_data_infos, band_emulators) ==
    IF band_emulators.raised # NoRaise
    THEN [raised |-> band_emulators.raised, value |-> None]
    ELSE [raised |-> NoRaise,
          value |-> [file_refs |-> file_refs,
                     reprojection |-> reprojection,
                     data_type |-> get_valid_type(file_refs[1]),
                     meta_data_infos |-> meta_data_infos,
                     band_emulators |-> band_emulators.value,
                     bands_per_observation |-> Len(EMULATOR_BAND_MAP)]]

\* lines 133-137
InstanceEmulators(emulator_folder, m) ==
    IF emulator_folder # Unset
    THEN PrepareBandEmulators(ListElements(emulator_folder), m.sza, m.saa, m.vza, m.vaa)
    ELSE [raised |-> NoRaise, value |-> None]

\* lines 122-132: the means of the angles, or the ValueError of the first file
\* reference whose folder holds no metadata file
MetaDataInfos(dk, file_refs) ==
    IF \E i \in DOMAIN file_refs : GetMetadataFile(dk, file_refs[i]).raised # NoRaise
    THEN [raised |-> "ValueError", value |-> None]
    ELSE [raised |-> NoRaise,
          value |-> [sza |-> MeanAngle(dk, file_refs, 1), saa |-> MeanAngle(dk, file_refs, 2),
                     vza |-> MeanAngle(dk, file_refs, 3), vaa |-> MeanAngle(dk, file_refs, 4)]]

WithMetaData(file_refs, reprojection, emulator_folder, meta_data_infos) ==
    IF meta_data_infos.raised # NoRaise
    THEN [raised |-> meta_data_infos.raised, value |-> None]
    ELSE NewInstance(file_refs, reprojection, meta_data_infos.value,
                     InstanceEmulators(emulator_folder, meta_data_infos.value))

NewS2Observations(dk, file_refs, reprojection, emulator_folder) ==
    WithMetaData(file_refs, reprojection, emulator_folder, MetaDataInfos(dk, file_refs))

(***************************************************************************)
(* read_granule.                                                           *)
(***************************************************************************)
NoGranule == <<None, None, None, None, None, None>>

\* the flat uncertainty of read_granule: ones * 0.005, then / 10000.0
GranuleUncertainty == DecDiv(Dec(5, 1, -3), DecInt(ReflectanceScale))

\* the reads of the loop over band_map, in order; the first failure ends them
RECURSIVE ReadBands(_, _, _, _, _)
RECURSIVE ReadBandsAfter(_, _, _, _, _)
RECURSIVE ReadBandsWith(_, _)

ReadBandsWith(first, rest) ==
    IF rest.raised # NoRaise
    THEN [rest EXCEPT !.built = first.built \o rest.built]
    ELSE Outcome(NoRaise, <<first.value>> \o rest.value, rest.vrt,
                 first.built \o rest.built)

ReadBandsAfter(first, o, dk, names, gdal) ==
    IF first.raised # NoRaise THEN first
    ELSE ReadBandsWith(first, ReadBands(o, dk, first.vrt, names, gdal))

ReadBands(o, dk, vf, names, gdal) ==
    IF names = <<>> THEN Outcome(NoRaise, <<>>, vf, <<>>)
    ELSE ReadBandsAfter(RawBandDataFromName(o, dk, vf, Head(names), gdal), o, dk,
                        Tail(names), gdal)

\* np.cos(np.deg2rad(x)), kept symbolic
CosDeg(x) == [cos_of_degrees |-> x]

ArrayMean(array) == Mean([p \in Pixels |-> DecInt(array[p])])

\* rho_surface with nan outside the mask (lines 243, 254)
GranuleSurface(rho_raw, refined) ==
    [b \in DOMAIN rho_raw |->
        [p \in Pixels |->
            IF refined[p] THEN DecDiv(DecInt(rho_raw[b][p]), DecInt(ReflectanceScale))
            ELSE NaN]]

\* sun_angles[k].mean() / 100.0
AngleMean(angles, k) == DecDiv(ArrayMean(angles[k]), DecInt(100))

\* lines 252-264, given the rasters that were read
GranuleValue(rho_raw, refined, sun_angles, view_angles) ==
    << GranuleSurface(rho_raw, refined), refined,
       CosDeg(AngleMean(sun_angles, 2)), CosDeg(AngleMean(view_angles, 2)),
       CosDeg(DecSub(AngleMean(view_angles, 1), AngleMean(sun_angles, 1))),
       [b \in DOMAIN rho_raw |-> GranuleUncertainty] >>

\* Mutant: a pixel at the threshold counts as cloudy (< for <=).
CloudMaskBelow(cloud_mask) == [p \in Pixels |-> cloud_mask[p] < BAND_PROB_THRESHOLD]

\* mask = cloud_mask <= BAND_PROB_THRESHOLD
CloudMask(cloud_mask) == [p \in Pixels |-> cloud_mask[p] <= BAND_PROB_THRESHOLD]

\* the mask after the positivity test on sel_bands
RefinedMask(mask, rho_raw) ==
    [p \in Pixels |->
        /\ \A k \in DOMAIN SelBands :
               DecPositive(DecDiv(DecInt(rho_raw[SelBands[k] + 1][p]),
                                  DecInt(ReflectanceScale)))
        /\ mask[p]]

\* lines 256-264, given what the reads of the angle files gave
GranuleAfterAngles(bands, refined, built, sun, view) ==
    IF sun.raised # NoRaise THEN [sun EXCEPT !.built = built \o sun.built]
    ELSE IF view.raised # NoRaise
    THEN [view EXCEPT !.built = built \o sun.built \o view.built]
    ELSE Outcome(NoRaise, GranuleValue(bands.value, refined, sun.value, view.value),
                 view.vrt, built \o sun.built \o view.built)

\* the second read is made only when the first succeeded
GranuleAfterSun(o, dk, gdal, bands, refined, built, sun) ==
    GranuleAfterAngles(bands, refined, built, sun,
                       IF sun.raised # NoRaise THEN sun
                       ELSE RawBandDataFromName(o, dk, sun.vrt, VIEW_ANGLES_NAME, gdal))

\* lines 250-264, given the refined mask
GranuleAfterRefinement(o, dk, gdal, bands, refined, built) ==
    IF \A p \in Pixels : ~refined[p]
    THEN Outcome(NoRaise, NoGranule, bands.vrt, built)
    ELSE GranuleAfterSun(o, dk, gdal, bands, refined, built,
                         RawBandDataFromName(o, dk, bands.vrt, SUN_ANGLES_NAME, gdal))

\* lines 243-264, given what the reads of the loop over band_map gave
GranuleAfterBands(o, dk, gdal, cloud, bands) ==
    IF bands.raised # NoRaise THEN [bands EXCEPT !.built = cloud.built \o bands.built]
    ELSE GranuleAfterRefinement(o, dk, gdal, bands,
                                RefinedMask(CloudMask(cloud.value), bands.value),
                                cloud.built \o bands.built)

\* lines 232-264, given what the read of the cloud band gave
GranuleAfterCloud(o, dk, gdal, cloud) ==
    IF cloud.raised # NoRaise THEN cloud
    ELSE IF \A p \in Pixels : ~CloudMask(cloud.value)[p]
    THEN [cloud EXCEPT !.value = NoGranule]
    ELSE GranuleAfterBands(o, dk, gdal, cloud,
                           ReadBands(o, dk, cloud.vrt,
                                     [b \in DOMAIN GranuleBandMap |->
                                         SurName(GranuleBandMap[b])],
                                     gdal))

\* read_granule
ReadGranule(o, dk, vf, gdal) ==
    GranuleAfterCloud(o, dk, gdal, RawBandDataFromName(o, dk, vf, CLOUD_MASK_NAME, gdal))

(***************************************************************************)
(* Idle values of the parts of the state a specification does not use.     *)
(***************************************************************************)
Slots == {1, 2}
Threads == {1, 2}

EmptyDisk == [u \in Urls |-> [f \in FolderFiles |-> Missing]]
NoMosaics == [p \in VrtPaths |-> Absent]
NoBuilds == [p \in VrtPaths |-> 0]

IdleObjects ==
    /\ disk = EmptyDisk
    /\ vrtFiles = NoMosaics
    /\ buildCount = NoBuilds
    /\ objs = [s \in Slots |-> Unconstructed]
    /\ NO_DATA_VALUES = DefaultNoDataValues
    /\ ret = None

\* a thread outside _get_raw_data_set_from_name
IdleThread == [at |-> "idle", slot |-> 0, band_name |-> <<>>]

IdleThreads ==
    /\ pc = [t \in Threads |-> IdleThread]
    /\ found = [t \in Threads |-> <<>>]

(***************************************************************************)
(* The calls on S2Observations instances, as actions.                      *)
(***************************************************************************)
\* BuildVRT calls are counted per path, up to MaxBuilds
CanCount(built) == \A k \in DOMAIN built : buildCount[built[k]] < MaxBuilds

Counted(built) ==
    [p \in VrtPaths |-> buildCount[p] + Cardinality({k \in DOMAIN built : built[k] = p})]

Returned(op, slot, args, outcome) ==
    [op |-> op, slot |-> slot, args |-> args, raised |-> outcome.raised,
     value |-> outcome.value, built |-> outcome.built]

\* the instance is bound to the slot when the constructor returns
Bind(slot, args, made) ==
    /\ objs' = IF made.raised = NoRaise THEN [objs EXCEPT ![slot] = made.value] ELSE objs
    /\ ret' = [op |-> "__init__", slot |-> slot, args |-> args, raised |-> made.raised,
               value |-> None, built |-> <<>>]
    /\ UNCHANGED <<disk, vrtFiles, buildCount, NO_DATA_VALUES, emu, warp, gdalMajor, pc,
                   found, registry, fileRefs>>

\* S2ObservationsCreator.can_read: every file reference passes one of the two validators
can_read(file_refs) ==
    \A i \in DOMAIN file_refs : get_valid_type(file_refs[i]) \in {"AWS_S2_L2", "S2L2"}

\* S2ObservationsCreator.create_observations
create_observations(dk, file_refs, reprojection, emulator_folder) ==
    NewS2Observations(dk, file_refs, reprojection, emulator_folder)

Construct(slot, file_refs, reprojection, emulator_folder) ==
    /\ objs[slot] = Unconstructed
    /\ can_read(file_refs)
    /\ Bind(slot, <<file_refs, emulator_folder>>,
            create_observations(disk, file_refs, reprojection, emulator_folder))

\* the shared table after the call, and what the call gave
Configured(slot, args, done) ==
    /\ NO_DATA_VALUES' = done.table
    /\ ret' = [op |-> "set_no_data_value", slot |-> slot, args |-> args,
               raised |-> done.raised, value |-> None, built |-> <<>>]
    /\ UNCHANGED <<disk, vrtFiles, buildCount, objs, emu, warp, gdalMajor, pc, found, registry,
                   fileRefs>>

CallSetNoDataValue(slot, band, isStr, no_data_value) ==
    /\ objs[slot] # Unconstructed
    /\ Configured(slot, <<band, no_data_value>>,
                  SetNoDataValue(NO_DATA_VALUES, band, isStr, no_data_value))

\* the mosaic files and the build counts after a request, and what the request gave
Requested(op, slot, args, got) ==
    /\ CanCount(got.built)
    /\ vrtFiles' = got.vrt
    /\ buildCount' = Counted(got.built)
    /\ ret' = Returned(op, slot, args, got)
    /\ UNCHANGED <<disk, objs, NO_DATA_VALUES, emu, warp, gdalMajor, pc, found, registry, fileRefs>>

CallGetBandData(slot, band_index, retrieve_uncertainty) ==
    /\ objs[slot] # Unconstructed
    /\ Requested("get_band_data", slot, <<band_index, retrieve_uncertainty>>,
                 GetBandData(objs[slot], disk, vrtFiles, NO_DATA_VALUES, band_index,
                             retrieve_uncertainty, gdalMajor))

CallGetBandDataByName(slot, band_name, retrieve_uncertainty) ==
    /\ objs[slot] # Unconstructed
    /\ Requested("get_band_data_by_name", slot, <<band_name, retrieve_uncertainty>>,
                 GetBandDataByName(objs[slot], disk, vrtFiles, NO_DATA_VALUES, band_name,
                                   retrieve_uncertainty, gdalMajor))

CallReadGranule(slot) ==
    /\ objs[slot] # Unconstructed
    /\ Requested("read_granule", slot, <<>>,
                 ReadGranule(objs[slot], disk, vrtFiles, gdalMajor))

IdleOthers ==
    /\ IdleThreads
    /\ registry = <<>>
    /\ fileRefs = <<>>
    /\ emu = None
    /\ warp = None
    /\ gdalMajor = 3

(***************************************************************************)
(* SpecBand: band requests on instances over one product folder whose      *)
(* rasters are drawn from a bounded set.                                   *)
(***************************************************************************)
RawValues == {-1, 0, 3}

\* the metadata files of data/a: metadata.xml alone
MetadataOfA(f) == IF f = MetadataFileNames[1] THEN MetadataAngles(UrlA) ELSE Missing

\* a folder in which every raster file holds the given raster
UniformFolder(array) == [f \in FolderFiles |-> IF f \in FileNames THEN array ELSE MetadataOfA(f)]

\* band indexes asked for: the catalog's, counted from either end, and the first
\* outside it on both sides
BandIndexInputs == (-(Len(BAND_NAMES) + 1))..(Len(BAND_NAMES) + 1)

NoDataInputs == {DecInt(-9999)}

\* a reprojection onto the grid the rasters already have
SameGrid ==
    NewReprojection(<<Zero, Zero, DecInt(NPix), One>>, One, One, "utm", Unset, Unset)

\* the instances requests are made on: a plain one, and one with a reprojection
\* and emulators
BandInstances(dk) ==
    {NewS2Observations(dk, <<UrlA>>, None, Unset).value,
     NewS2Observations(dk, <<UrlA>>, SameGrid, "emulators").value}

InitBand ==
    /\ disk \in {[EmptyDisk EXCEPT ![UrlA] = UniformFolder(a)] : a \in [Pixels -> RawValues]}
    /\ vrtFiles = NoMosaics
    /\ buildCount = NoBuilds
    /\ objs \in {[s \in Slots |-> IF s = 1 THEN o ELSE Unconstructed] : o \in BandInstances(disk)}
    /\ NO_DATA_VALUES = DefaultNoDataValues
    /\ ret = None
    /\ IdleOthers

ConfigureNoData ==
    \E slot \in Slots, v \in NoDataInputs :
        \/ CallSetNoDataValue(slot, 0, FALSE, v)
        \/ CallSetNoDataValue(slot, BAND_NAMES[1], TRUE, v)

NextBand ==
    \/ ConfigureNoData
    \/ \E slot \in Slots, i \in BandIndexInputs, u \in BOOLEAN : CallGetBandData(slot, i, u)

SpecBand == InitBand /\ [][NextBand]_vars

Called(op) == ret # None /\ ret.op = op

\* the raster the band files of the folder hold
RawRaster(band_index) == disk[UrlA][PyAt(BAND_NAMES, band_index)]

\* C1: in every ObservationData get_band_data returns, the mask covers the pixels of
\* the observations, a pixel whose mask is false holds the no-data value configured
\* for the band, and a pixel whose mask is true holds the raw value divided by 10000,
\* which is strictly positive.
C1_MaskNoDataInvariant ==
    (Called("get_band_data") /\ ret.raised = NoRaise) =>
        LET band_index == ret.args[1]
            raw == RawRaster(band_index)
            data == ret.value
        IN  /\ DOMAIN data.mask = DOMAIN data.observations
            /\ \A p \in DOMAIN data.observations :
                   IF data.mask[p]
                   THEN /\ data.observations[p] = Dec(raw[p], 10000, 0)
                        /\ DecPositive(data.observations[p])
                   ELSE data.observations[p] = PyAt(NO_DATA_VALUES, band_index)

\* C1 witness: a band whose no-data value was configured is returned with valid and
\* invalid pixels.
C1_Witness ==
    /\ Called("get_band_data")
    /\ ret.raised = NoRaise
    /\ PyAt(NO_DATA_VALUES, ret.args[1]) = DecInt(-9999)
    /\ \E p, q \in Pixels : ret.value.mask[p] /\ ~ret.value.mask[q]

UncertaintyReturned ==
    Called("get_band_data") /\ ret.raised = NoRaise /\ ret.args[2]

\* C2 as stated: the uncertainty is an n x n matrix, zero off the diagonal, with
\* 1/(0.05 x reflectance)^2 on the diagonal of a valid pixel and zero on the diagonal
\* of an invalid pixel.
C2_AsStated ==
    UncertaintyReturned =>
        LET data == ret.value
        IN  /\ DOMAIN data.uncertainty = Pixels \X Pixels
            /\ \A r, c \in Pixels :
                   data.uncertainty[<<r, c>>] =
                       IF r # c THEN Zero
                       ELSE IF data.mask[r]
                       THEN DecDiv(One, DecSquare(DecMul(Dec(5, 100, 0),
                                                         data.observations[r])))
                       ELSE Zero

\* C2, what the code does where the claim fails: the diagonal entry of an invalid
\* pixel is 1/0^2, which numpy evaluates to inf.
C2_InvalidPixelIsInf ==
    UncertaintyReturned =>
        \A r \in Pixels : ~ret.value.mask[r] => ret.value.uncertainty[<<r, r>>] = Inf

C2_InvalidPixelReached ==
    UncertaintyReturned /\ \E r \in Pixels : ~ret.value.mask[r]

(***************************************************************************)
(* Claims on the band index (SpecBand).                                    *)
(***************************************************************************)
\* the instance the last call was made on has an emulator set
OnInstanceWithEmulators == objs[ret.slot].band_emulators # None

CatalogIndexes == 0..(Len(BAND_NAMES) - 1)

\* C19: on an instance with an emulator set, get_band_data(i) returns for every index
\* i of the band catalog, and the record's emulator is the entry of the set for band i.
C19_AsStated ==
    (/\ Called("get_band_data") /\ OnInstanceWithEmulators
     /\ ret.args[1] \in CatalogIndexes) =>
        /\ ret.raised = NoRaise
        /\ ret.value.emulator =
               <<objs[ret.slot].band_emulators,
                 EmulatorKey(PyAt(EMULATOR_BAND_MAP, ret.args[1]))>>

\* band 10 of the catalog has no entry in EMULATOR_BAND_MAP: the request raised
C19_IndexErrorBeyondEmulatorMap ==
    /\ Called("get_band_data") /\ OnInstanceWithEmulators
    /\ ret.args[1] = Len(EMULATOR_BAND_MAP)
    /\ ret.args[1] \in CatalogIndexes
    /\ ret.raised = "IndexError"

\* C20: get_band_data with an index outside the catalog (below 0, or 13 and above)
\* raises the ValueError of the index test, and no raster is read.
C20_AsStated ==
    (Called("get_band_data") /\ ret.args[1] \notin CatalogIndexes) =>
        /\ ret.raised = "ValueError"
        /\ ret.value = None

\* index -1 was served with the last band of the catalog
C20_NegativeIndexServed ==
    /\ Called("get_band_data") /\ ret.args[1] = -1
    /\ ret.raised = NoRaise
    /\ ret.value.mask = ValidMask(disk[UrlA][BAND_NAMES[Len(BAND_NAMES)]])

\* index 13 passed the index test and failed in the catalog lookup
C20_IndexErrorAtCatalogLength ==
    /\ Called("get_band_data") /\ ret.args[1] = Len(BAND_NAMES)
    /\ ret.raised = "IndexError"

(***************************************************************************)
(* SpecName: band requests by name.                                        *)
(***************************************************************************)
TwoNames(name, other) == name \o <<"+">> \o other

\* names asked for: a catalog name after a prefix, two catalog names in one string
\* (in both orders), and a string that holds none
NameInputs ==
    {<<"x", "/">> \o BAND_NAMES[k] : k \in {1, 2, Len(EMULATOR_BAND_MAP), Len(BAND_NAMES)}}
        \cup {TwoNames(BAND_NAMES[2], BAND_NAMES[1]), TwoNames(BAND_NAMES[1], BAND_NAMES[2]),
              TwoNames(BAND_NAMES[Len(BAND_NAMES)], BAND_NAMES[1])}
        \cup {<<"B", "0", "2", ".", "t", "i", "f">>}

NextName ==
    \/ ConfigureNoData
    \/ \E slot \in Slots, name \in NameInputs, u \in BOOLEAN :
           CallGetBandDataByName(slot, name, u)

SpecName == InitBand /\ [][NextName]_vars

\* what get_band_data(band_index, u) yields in the current state
ByIndex(band_index, u) ==
    LET got == GetBandData(objs[ret.slot], disk, vrtFiles, NO_DATA_VALUES, band_index, u,
                           gdalMajor)
    IN  [raised |-> got.raised, value |-> got.value]

SameAsByIndex(band_index) ==
    [raised |-> ret.raised, value |-> ret.value] = ByIndex(band_index, ret.args[2])

ContainedIndexes(s) == {i \in 0..(Len(BAND_NAMES) - 1) : Contains(PyAt(BAND_NAMES, i), s)}

\* C3 as stated: for every catalog index whose name the string contains, the request
\* by name yields what the request by that index yields.
C3_AsStated ==
    Called("get_band_data_by_name") =>
        \A i \in ContainedIndexes(ret.args[1]) : SameAsByIndex(i)

\* C3, amended: the request by name yields what the request by index i yields, where
\* i is the lowest catalog index whose name the string contains.
C3_LowestContainedIndexDecides ==
    Called("get_band_data_by_name") =>
        \A i \in ContainedIndexes(ret.args[1]) :
            (\A j \in ContainedIndexes(ret.args[1]) : i <= j) => SameAsByIndex(i)

\* C3 witness: a string holding two catalog names, the higher index first, is resolved.
C3_Witness ==
    /\ Called("get_band_data_by_name")
    /\ ret.args[1] = TwoNames(BAND_NAMES[2], BAND_NAMES[1])
    /\ ret.raised = NoRaise
    /\ ret.value # None

(***************************************************************************)
(* SpecGranule: read_granule on one product folder whose cloud band and    *)
(* reflectance bands are drawn from bounded sets.                          *)
(***************************************************************************)
CloudValues == {BAND_PROB_THRESHOLD, BAND_PROB_THRESHOLD + 1}

\* angle rasters have two bands, azimuth then zenith, in hundredths of a degree
SunAngleRaster == <<[p \in Pixels |-> 10000], [p \in Pixels |-> 2000]>>
ViewAngleRaster == <<[p \in Pixels |-> 10600], [p \in Pixels |-> 1000]>>

\* a folder whose reflectance is positive everywhere but in the pixels dark of one band
GranuleFolder(cloud, band, dark) ==
    [f \in FolderFiles |->
        IF f \notin FileNames THEN MetadataOfA(f)
        ELSE IF f = CLOUD_MASK_NAME THEN cloud
        ELSE IF f = SUN_ANGLES_NAME THEN SunAngleRaster
        ELSE IF f = VIEW_ANGLES_NAME THEN ViewAngleRaster
        ELSE [p \in Pixels |-> IF f = band /\ p \in dark THEN 0 ELSE 3]]

\* files that may be absent from the folder
AbsentFiles ==
    {<<>>, CLOUD_MASK_NAME, SUN_ANGLES_NAME, VIEW_ANGLES_NAME, SurName(<<"B", "0", "3">>),
     SurName(<<"B", "1", "0">>)}

Without(folder, file) == [f \in FolderFiles |-> IF f = file THEN Missing ELSE folder[f]]

InitGranule ==
    /\ \E cloud \in [Pixels -> CloudValues], band \in Range(BAND_NAMES),
          dark \in SUBSET Pixels, absent \in AbsentFiles :
           disk = [EmptyDisk EXCEPT
                       ![UrlA] = Without(GranuleFolder(cloud, band, dark), absent)]
    /\ vrtFiles = NoMosaics
    /\ buildCount = NoBuilds
    /\ objs \in {[s \in Slots |-> IF s = 1 THEN o ELSE Unconstructed] : o \in BandInstances(disk)}
    /\ NO_DATA_VALUES = DefaultNoDataValues
    /\ ret = None
    /\ IdleOthers

NextGranule == \E slot \in Slots : CallReadGranule(slot)

SpecGranule == InitGranule /\ [][NextGranule]_vars

Present(file) == disk[UrlA][file] # Missing

BandsPresent == \A band \in Range(BAND_NAMES) : Present(band)

AnglesPresent == Present(SUN_ANGLES_NAME) /\ Present(VIEW_ANGLES_NAME)

PassesCloudTest(p) == disk[UrlA][CLOUD_MASK_NAME][p] <= 5

\* cloud probability <= 5 and reflectance > 0 in every band of the positivity subset
PassesRefinedMask(p) ==
    /\ PassesCloudTest(p)
    /\ \A k \in DOMAIN SelBands : disk[UrlA][SurName(GranuleBandMap[SelBands[k] + 1])][p] > 0

ReturnsNoGranule == ret.raised = NoRaise /\ ret.value = NoGranule

ReturnsSixValues ==
    /\ ret.raised = NoRaise
    /\ Len(ret.value) = 6
    /\ \A k \in 1..6 : ret.value[k] # None

\* C5: read_granule returns the six-element all-None result, without raising, when
\* no pixel of the cloud-probability band is at or below 5, and also when a pixel
\* passes the cloud test but none passes the refined mask; in every other case it
\* returns six values none of which is None.  (The files the call reads are there.)
C5_NoneSextuple ==
    (Called("read_granule") /\ Present(CLOUD_MASK_NAME)) =>
        IF \A p \in Pixels : ~PassesCloudTest(p) THEN ReturnsNoGranule
        ELSE BandsPresent =>
                 IF \A p \in Pixels : ~PassesRefinedMask(p) THEN ReturnsNoGranule
                 ELSE AnglesPresent => ReturnsSixValues

\* C5 witness: a pixel at the threshold passes the cloud test, no pixel passes the
\* refined mask, and the all-None result came back.
C5_Witness ==
    /\ Called("read_granule")
    /\ Present(CLOUD_MASK_NAME) /\ BandsPresent
    /\ \E p \in Pixels : disk[UrlA][CLOUD_MASK_NAME][p] = 5
    /\ \A p \in Pixels : ~PassesRefinedMask(p)
    /\ ReturnsNoGranule

(***************************************************************************)
(* Spec: instances are constructed over four product folders and asked     *)
(* for bands and granules, one call after the other.                       *)
(***************************************************************************)
\* the folders: data/a and data/d hold every raster, data/c all but band B10, data/b
\* lacks B03 too; data/a holds metadata.xml, data/b MTD_TL.xml, data/c both, data/d none
MissingOnDisk(url) ==
    IF url = UrlA THEN {MetadataFileNames[2]}
    ELSE IF url = UrlB
    THEN {SurName(<<"B", "1", "0">>), SurName(<<"B", "0", "3">>), MetadataFileNames[1]}
    ELSE IF url = UrlC THEN {SurName(<<"B", "1", "0">>)}
    ELSE Range(MetadataFileNames)

FolderValue(url) ==
    IF url = UrlA THEN 3 ELSE IF url = UrlB THEN 5 ELSE IF url = UrlC THEN 7 ELSE 9

\* what the metadata files hold: in data/c the two files differ
MetadataContent(url, f) ==
    IF url = UrlC /\ f = MetadataFileNames[2] THEN MetadataAngles(UrlB)
    ELSE MetadataAngles(url)

StandardDisk ==
    [url \in Urls |->
        [f \in FolderFiles |->
            IF f \in MissingOnDisk(url) THEN Missing
            ELSE IF f \notin FileNames THEN MetadataContent(url, f)
            ELSE IF f = SUN_ANGLES_NAME THEN SunAngleRaster
            ELSE IF f = VIEW_ANGLES_NAME THEN ViewAngleRaster
            ELSE IF f = CLOUD_MASK_NAME THEN [p \in Pixels |-> BAND_PROB_THRESHOLD]
            ELSE [p \in Pixels |-> IF p = 1 THEN 0 ELSE FolderValue(url)]]]

\* (file_refs, emulator_folder) of the instances constructed
InstanceConfigs ==
    {<<<<UrlA>>, Unset>>, <<<<UrlA>>, "empty">>, <<<<UrlA, UrlB>>, "emulators">>,
     <<<<UrlC, UrlB>>, "empty">>, <<<<UrlA, UrlB>>, "sparse">>, <<<<UrlA, UrlC>>, Unset>>,
     <<<<UrlB, UrlC>>, Unset>>, <<<<UrlD>>, Unset>>, <<<<UrlA, UrlD>>, "empty">>}

RequestedIndexes == {0, IndexOf(BAND_NAMES, SurName(<<"B", "1", "0">>))}

RequestedNames == {<<"x", "/">> \o BAND_NAMES[1]}

Init ==
    /\ disk = StandardDisk
    /\ vrtFiles = NoMosaics
    /\ buildCount = NoBuilds
    /\ objs = [s \in Slots |-> Unconstructed]
    /\ NO_DATA_VALUES = DefaultNoDataValues
    /\ ret = None
    /\ IdleOthers

Next ==
    \/ \E slot \in Slots, config \in InstanceConfigs :
           Construct(slot, config[1], None, config[2])
    \/ \E slot \in Slots, i \in RequestedIndexes : CallGetBandData(slot, i, FALSE)
    \/ \E slot \in Slots, name \in RequestedNames : CallGetBandDataByName(slot, name, FALSE)
    \/ \E slot \in Slots : CallReadGranule(slot)

Spec == Init /\ [][Next]_vars

NoEmulatorsListed(emulator_folder) ==
    emulator_folder = Unset \/ ListElements(emulator_folder) = {}

Constructed(slot) == objs[slot] # Unconstructed

\* every folder of the file references holds a metadata file
HoldMetadata(file_refs) ==
    \A i \in DOMAIN file_refs : GetMetadataFile(disk, file_refs[i]).raised = NoRaise

\* C8: construction over product folders that hold their metadata file, with a folder
\* under which no emulator file is listed, or with no emulator folder, succeeds with no
\* emulator set; an instance keeps the emulator set it was
\* constructed with; and get_band_data on an instance without emulator set returns a
\* record whose emulator is None.
C8_NoEmulators ==
    /\ [](Called("__init__") /\ NoEmulatorsListed(ret.args[2])
              /\ HoldMetadata(ret.args[1]) =>
              /\ ret.raised = NoRaise
              /\ Constructed(ret.slot)
              /\ objs[ret.slot].band_emulators = None)
    /\ [][\A slot \in Slots : Constructed(slot) => objs'[slot] = objs[slot]]_vars
    /\ []((/\ Called("get_band_data") \/ Called("get_band_data_by_name")
           /\ ret.raised = NoRaise
           /\ ret.value # None
           /\ objs[ret.slot].band_emulators = None) => ret.value.emulator = None)

\* C8 witness: a band came back from an instance constructed without emulators.
C8_Witness ==
    /\ Called("get_band_data")
    /\ ret.raised = NoRaise
    /\ objs[ret.slot].band_emulators = None
    /\ \E other \in Slots : Constructed(other) /\ objs[other].band_emulators # None

IsRequest == Called("get_band_data") \/ Called("get_band_data_by_name")
                 \/ Called("read_granule")

\* C9: in a run of calls made one after the other, no mosaic is built twice: a
\* request builds a mosaic only where there is none, a mosaic once there is opened
\* and left as it is, and requests on an instance with one file reference build none.
C9_BuiltAtMostOnce ==
    /\ [](\A path \in VrtPaths :
              /\ buildCount[path] <= 1
              /\ buildCount[path] = 1 <=> vrtFiles[path] # Absent)
    /\ [][\A path \in VrtPaths :
              vrtFiles[path] # Absent =>
                  /\ vrtFiles'[path] = vrtFiles[path]
                  /\ buildCount'[path] = buildCount[path]]_vars
    /\ []((IsRequest /\ Len(objs[ret.slot].file_refs) = 1) => ret.built = <<>>)
    /\ []((IsRequest /\ ret.raised = NoRaise /\ Len(objs[ret.slot].file_refs) > 1) =>
              /\ ret.op = "read_granule" => \A path \in VrtPaths : buildCount[path] = 1
              /\ ret.op = "get_band_data" =>
                     buildCount[VrtFileName(objs[ret.slot].file_refs,
                                            objs[ret.slot].data_type,
                                            PyAt(BAND_NAMES, ret.args[1]))] = 1)

\* C9 witness: a request on an instance with two file references found the mosaic
\* of its band already built from its own sources, and built nothing.
C9_Witness ==
    /\ Called("get_band_data")
    /\ ret.raised = NoRaise
    /\ Len(objs[ret.slot].file_refs) > 1
    /\ ret.built = <<>>
    /\ LET path == VrtFileName(objs[ret.slot].file_refs, objs[ret.slot].data_type,
                               PyAt(BAND_NAMES, ret.args[1]))
       IN  /\ buildCount[path] = 1
           /\ vrtFiles[path] = CollectSources(disk, objs[ret.slot].file_refs,
                                              PyAt(BAND_NAMES, ret.args[1]))

\* the band a request by index was for, and the mosaic path of that band
RequestedBand == PyAt(BAND_NAMES, ret.args[1])

RequestedPath ==
    VrtFileName(objs[ret.slot].file_refs, objs[ret.slot].data_type, RequestedBand)

MosaicRequestServed ==
    /\ Called("get_band_data")
    /\ ret.raised = NoRaise
    /\ Len(objs[ret.slot].file_refs) > 1

\* C11 as stated: the mosaic that serves a band request of an instance with several
\* file references was built from that instance's own file references, never from
\* those of an instance with another set.
C11_AsStated ==
    MosaicRequestServed =>
        vrtFiles[RequestedPath] = CollectSources(disk, objs[ret.slot].file_refs, RequestedBand)

\* C11, the failure reached: two instances share their first file reference and differ
\* in the second; the request of one was served, without a build, by the mosaic built
\* from the sources of the other.
C11_ForeignMosaicServed ==
    /\ MosaicRequestServed
    /\ ret.built = <<>>
    /\ \E other \in Slots :
           /\ Constructed(other)
           /\ objs[other].file_refs[1] = objs[ret.slot].file_refs[1]
           /\ objs[other].file_refs # objs[ret.slot].file_refs
           /\ vrtFiles[RequestedPath] = CollectSources(disk, objs[other].file_refs, RequestedBand)
           /\ vrtFiles[RequestedPath]
                  # CollectSources(disk, objs[ret.slot].file_refs, RequestedBand)

SameDetectedType(file_refs) ==
    \A i, j \in DOMAIN file_refs : get_valid_type(file_refs[i]) = get_valid_type(file_refs[j])

\* C12 as stated: construction from file references of different detected types
\* fails, and in every constructed instance every file reference has the instance's
\* data_type.
C12_AsStated ==
    /\ (Called("__init__") /\ ~SameDetectedType(ret.args[1])) => ret.raised # NoRaise
    /\ \A slot \in Slots :
           Constructed(slot) =>
               \A i \in DOMAIN objs[slot].file_refs :
                   get_valid_type(objs[slot].file_refs[i]) = objs[slot].data_type

\* C12, the failure reached: the constructor returned an instance whose second file
\* reference is of another type than its data_type.
C12_MixedInstanceConstructed ==
    /\ Called("__init__")
    /\ ret.raised = NoRaise
    /\ Constructed(ret.slot)
    /\ objs[ret.slot].data_type = get_valid_type(objs[ret.slot].file_refs[1])
    /\ \E i \in DOMAIN objs[ret.slot].file_refs :
           get_valid_type(objs[ret.slot].file_refs[i]) # objs[ret.slot].data_type

(***************************************************************************)
(* SpecConc: threads inside _get_raw_data_set_from_name of one instance    *)
(* with two file references.  The method takes no lock; its steps are the  *)
(* test for the mosaic file, the collection of the sources, BuildVRT and   *)
(* Open, and the steps of different threads interleave.                    *)
(***************************************************************************)
\* a band both folders hold, and one neither holds
ConcurrentBands == {BAND_NAMES[1], SurName(<<"B", "1", "0">>)}

At(t, position) == pc[t].at = position

Goes(t, position) == pc' = [pc EXCEPT ![t].at = position]

PathOf(t) ==
    VrtFileName(objs[pc[t].slot].file_refs, objs[pc[t].slot].data_type, pc[t].band_name)

\* a thread enters the method for a band
Enter(t, slot, band_name) ==
    /\ At(t, "idle")
    /\ Constructed(slot)
    /\ Len(objs[slot].file_refs) > 1
    /\ pc' = [pc EXCEPT ![t] = [at |-> "exists", slot |-> slot, band_name |-> band_name]]
    /\ UNCHANGED <<disk, vrtFiles, buildCount, objs, NO_DATA_VALUES, ret, emu, warp,
                   gdalMajor, found, registry, fileRefs>>

\* if not os.path.exists(vrt_file_name)
TestExists(t) ==
    /\ At(t, "exists")
    /\ IF vrtFiles[PathOf(t)] = Absent THEN Goes(t, "collect") ELSE Goes(t, "open")
    /\ UNCHANGED <<disk, vrtFiles, buildCount, objs, NO_DATA_VALUES, ret, emu, warp,
                   gdalMajor, found, registry, fileRefs>>

\* the loop over the file references
Collect(t) ==
    /\ At(t, "collect")
    /\ found' = [found EXCEPT
                     ![t] = CollectSources(disk, objs[pc[t].slot].file_refs, pc[t].band_name)]
    /\ Goes(t, "build")
    /\ UNCHANGED <<disk, vrtFiles, buildCount, objs, NO_DATA_VALUES, ret, emu, warp,
                   gdalMajor, registry, fileRefs>>

\* BuildVRT(vrt_file_name, data_set_base_urls), or the ValueError when there are none
Build(t) ==
    /\ At(t, "build")
    /\ IF Len(found[t]) = 0
       THEN /\ pc' = [pc EXCEPT ![t] = IdleThread]
            /\ UNCHANGED <<vrtFiles, buildCount>>
       ELSE /\ buildCount[PathOf(t)] < MaxBuilds
            /\ vrtFiles' = [vrtFiles EXCEPT ![PathOf(t)] = found[t]]
            /\ buildCount' = [buildCount EXCEPT ![PathOf(t)] = @ + 1]
            /\ Goes(t, "open")
    /\ found' = [found EXCEPT ![t] = <<>>]
    /\ UNCHANGED <<disk, objs, NO_DATA_VALUES, ret, emu, warp, gdalMajor, registry, fileRefs>>

\* return Open(vrt_file_name)
OpenMosaic(t) ==
    /\ At(t, "open")
    /\ pc' = [pc EXCEPT ![t] = IdleThread]
    /\ UNCHANGED <<disk, vrtFiles, buildCount, objs, NO_DATA_VALUES, ret, emu, warp,
                   gdalMajor, found, registry, fileRefs>>

InitConc ==
    /\ disk = StandardDisk
    /\ vrtFiles = NoMosaics
    /\ buildCount = NoBuilds
    /\ objs = [s \in Slots |->
                  IF s = 1 THEN NewS2Observations(StandardDisk, <<UrlC, UrlB>>, None, Unset).value
                  ELSE Unconstructed]
    /\ NO_DATA_VALUES = DefaultNoDataValues
    /\ ret = None
    /\ IdleOthers

NextConc ==
    \E t \in Threads :
        \/ \E slot \in Slots, band_name \in ConcurrentBands : Enter(t, slot, band_name)
        \/ TestExists(t)
        \/ Collect(t)
        \/ Build(t)
        \/ OpenMosaic(t)

SpecConc == InitConc /\ [][NextConc]_vars

\* C10 as stated: whatever the interleaving of the threads' tests and builds, the
\* mosaic of a band over one source-file set is built at most once.
C10_AtMostOneBuild == \A path \in VrtPaths : buildCount[path] <= 1

\* C10 witness of the failure: a mosaic that exists and was built twice.
C10_TwoBuilds ==
    \E path \in VrtPaths : buildCount[path] = 2 /\ vrtFiles[path] # Absent

(***************************************************************************)
(* SpecEmu: emulator selection applied to bounded catalogs and targets.    *)
(***************************************************************************)
MaxCatalog == 3      \* emulator files in the listed folder

\* the geometries (vza, sza, raa) and the name prefixes a catalog draws from
CatalogPool ==
    { <<10, 20, 30>>, <<10, 25, 35>>, <<15, 20, 30>>, <<5, 20, 30>>, <<10, 25, 30>>,
      <<15, 25, 35>> }

PoolFileName(t) == EmulatorFileName(t[1], t[2], t[3])

\* a second file of the same geometry, under another prefix
AltFileName(t) == <<"m">> \o PoolFileName(t)

PoolFiles == {PoolFileName(t) : t \in CatalogPool} \cup {AltFileName(t) : t \in CatalogPool}

TargetSzas == {DecInt(21), Dec(225, 1, -1)}
TargetVzas == {DecInt(11), Dec(125, 1, -1)}
TargetAzimuths == { <<DecInt(100), DecInt(106)>>, <<DecInt(106), DecInt(100)>>,
                    <<Zero, Dec(325, 1, -1)>> }

InitEmu ==
    /\ emu \in { [listing |-> l, sza |-> a, saa |-> z[1], vza |-> v, vaa |-> z[2],
                  out |-> None] :
                 l \in {c \in SUBSET PoolFiles : Cardinality(c) <= MaxCatalog},
                 a \in TargetSzas, v \in TargetVzas, z \in TargetAzimuths }
    /\ IdleObjects /\ IdleThreads
    /\ warp = None
    /\ gdalMajor = 3
    /\ registry = <<>>
    /\ fileRefs = <<>>

\* one call of _prepare_band_emulators
SelectEmulator ==
    /\ emu # None /\ emu.out = None
    /\ emu' = [emu EXCEPT !.out =
                  PrepareBandEmulators(emu.listing, emu.sza, emu.saa, emu.vza, emu.vaa)]
    /\ UNCHANGED <<disk, vrtFiles, buildCount, objs, NO_DATA_VALUES, ret, warp, gdalMajor,
                   pc, found, registry, fileRefs>>

NextEmu == SelectEmulator

SpecEmu == InitEmu /\ [][NextEmu]_vars


(***************************************************************************)
(* Claims on emulator selection (SpecEmu).  The geometry of a catalog file *)
(* is read off the pool it was drawn from, not parsed from its name.       *)
(***************************************************************************)
GeometryOf(file) == CHOOSE t \in CatalogPool : file \in {PoolFileName(t), AltFileName(t)}

\* the target on axis k of (vza, sza, raa)
TargetOn(e, k) ==
    IF k = 1 THEN e.vza ELSE IF k = 2 THEN e.sza ELSE DecAbs(DecSub(e.vaa, e.saa))

AxisDistance(e, file, k) == DecAbs(DecSub(DecInt(GeometryOf(file)[k]), TargetOn(e, k)))

\* no catalog file is nearer to the target on axis k than this one
ClosestOn(e, file, k) ==
    \A g \in e.listing : ~DecLess(AxisDistance(e, g, k), AxisDistance(e, file, k))

JointlyClosest(e) == {f \in e.listing : \A k \in 1..3 : ClosestOn(e, f, k)}

FirstInSortedOrder(files) == CHOOSE f \in files : \A g \in files \ {f} : StrLess(f, g)

SelectionDone == emu # None /\ emu.out # None

ExampleCatalog ==
    {EmulatorFileName(10, 20, 30), EmulatorFileName(10, 25, 35), EmulatorFileName(15, 20, 30)}

ExampleTarget(e) ==
    /\ e.listing = ExampleCatalog
    /\ e.sza = DecInt(21) /\ e.vza = DecInt(11)
    /\ DecAbs(DecSub(e.vaa, e.saa)) = DecInt(6)

\* the value that counts as closest on axis k when ties go to the entry that comes
\* first in sorted catalog order
FirstClosestValue(e, k) ==
    GeometryOf(FirstInSortedOrder({f \in e.listing : ClosestOn(e, f, k)}))[k]

CarriesFirstClosest(e) ==
    {f \in e.listing : \A k \in 1..3 : GeometryOf(f)[k] = FirstClosestValue(e, k)}

\* C6 as stated: whenever some catalog entry is closest to the target on each of the
\* three axes taken alone, the selection returns the first such entry in sorted
\* catalog order.
C6_AsStated ==
    (SelectionDone /\ emu.listing # {} /\ JointlyClosest(emu) # {}) =>
        /\ emu.out.raised = NoRaise
        /\ emu.out.value.emulator_file = FirstInSortedOrder(JointlyClosest(emu))

\* C6 (amended): on a non-empty catalog the closest value of an axis is the value,
\* on that axis, of the first entry in sorted catalog order among the entries nearest
\* to the target on that axis alone (raa = |vaa - saa|), so that of two values equally
\* near the one met first counts; when some entry carries the three closest values
\* the selection returns the first such entry in sorted catalog order, and an entry
\* it returns always is one; for the catalog (10,20,30), (10,25,35), (15,20,30) and
\* the target sza=21, vza=11, raa=6 that is the entry at index 0.
C6_SelectsFirstCarrier ==
    (SelectionDone /\ emu.listing # {}) =>
        /\ emu.out.raised = NoRaise =>
               emu.out.value.emulator_file \in CarriesFirstClosest(emu)
        /\ CarriesFirstClosest(emu) # {} =>
               /\ emu.out.raised = NoRaise
               /\ emu.out.value.emulator_file = FirstInSortedOrder(CarriesFirstClosest(emu))
        /\ ExampleTarget(emu) =>
               /\ emu.out.raised = NoRaise
               /\ emu.out.value.emulator_file = EmulatorFileName(10, 20, 30)
               /\ emu.out.value.emulator_file = SortNames(emu.listing)[1]

\* the spec's example has been selected from
C6_Witness ==
    /\ SelectionDone /\ ExampleTarget(emu)
    /\ emu.out.raised = NoRaise

\* C7: a non-empty catalog without an entry that is closest on all three axes at once
\* never yields an emulator: the selection ends in an error.
C7_NoJointMatchRaises ==
    (SelectionDone /\ emu.listing # {} /\ JointlyClosest(emu) = {}) =>
        /\ emu.out.raised = "IndexError"
        /\ emu.out.value = None

C7_Witness ==
    /\ SelectionDone /\ emu.listing # {} /\ JointlyClosest(emu) = {}
    /\ emu.out.raised = "IndexError"


(***************************************************************************)
(* SpecResample: one warp of a source raster onto a target grid, through   *)
(* Reprojection.reproject or through reproject_dataset.                    *)
(***************************************************************************)
MaxRes == 3          \* resolutions of the source and of the target grid: 1..MaxRes

\* (xmin, ymin, xmax, ymax), with xmin < xmax and ymin < ymax
BoundsPool == { <<0, 0, 4, 2>>, <<1, 2, 3, 8>> }

DecBounds(b) == <<DecInt(b[1]), DecInt(b[2]), DecInt(b[3]), DecInt(b[4])>>

\* a source raster of the given reference system and resolutions
SourceDataset(srs, x_res, y_res) ==
    [array |-> [p \in Pixels |-> 1], srs |-> srs,
     geo_transform |-> <<Zero, DecInt(x_res), Zero, Zero, Zero, DecInt(-y_res)>>,
     outputBounds |-> None, outputBoundsSRS |-> Unset, resampleAlg |-> Unset]

WarpInputs ==
    [ bounds : BoundsPool, x_res : 1..MaxRes, y_res : 1..MaxRes,
      source_srs : SrsNames, source_x_res : 1..MaxRes, source_y_res : 1..MaxRes,
      destination_srs : SrsNames, bounds_srs : SrsNames \cup {Unset},
      resampling_mode : {Unset, "near"} ]

InitResample ==
    /\ warp \in {[in |-> i, via |-> Unset, out |-> None] : i \in WarpInputs}
    /\ gdalMajor \in {2, 3}
    /\ IdleObjects /\ IdleThreads
    /\ emu = None
    /\ registry = <<>>
    /\ fileRefs = <<>>

\* Reprojection(bounds, x_res, y_res, destination_srs, bounds_srs, mode).reproject(dataset)
CallReproject ==
    /\ warp # None /\ warp.out = None
    /\ LET i == warp.in
           rp == NewReprojection(DecBounds(i.bounds), DecInt(i.x_res), DecInt(i.y_res),
                                 i.destination_srs, i.bounds_srs, i.resampling_mode)
       IN  warp' = [warp EXCEPT
                       !.via = "Reprojection.reproject",
                       !.out = Reproject(rp, SourceDataset(i.source_srs, i.source_x_res,
                                                           i.source_y_res), gdalMajor)]
    /\ UNCHANGED <<disk, vrtFiles, buildCount, objs, NO_DATA_VALUES, ret, emu, gdalMajor,
                   pc, found, registry, fileRefs>>

\* reproject_dataset(dataset, bounds, x_res, y_res, destination_srs, bounds_srs, mode)
CallReprojectDataset ==
    /\ warp # None /\ warp.out = None
    /\ LET i == warp.in
       IN  warp' = [warp EXCEPT
                       !.via = "reproject_dataset",
                       !.out = ReprojectDataset(
                                   SourceDataset(i.source_srs, i.source_x_res, i.source_y_res),
                                   DecBounds(i.bounds), DecInt(i.x_res), DecInt(i.y_res),
                                   i.destination_srs, i.bounds_srs, i.resampling_mode,
                                   gdalMajor)]
    /\ UNCHANGED <<disk, vrtFiles, buildCount, objs, NO_DATA_VALUES, ret, emu, gdalMajor,
                   pc, found, registry, fileRefs>>

NextResample == CallReproject \/ CallReprojectDataset

SpecResample == InitResample /\ [][NextResample]_vars

(***************************************************************************)
(* Claim on the resampling choice (SpecResample).  The densities are       *)
(* restated in integers: the extent of the bounds on an axis, in a system, *)
(* is the extent as given times the system's scale over the scale of the   *)
(* system the bounds are given in.                                         *)
(***************************************************************************)
WarpDone == warp # None /\ warp.out # None

BoundsSrsOf(i) == IF i.bounds_srs = Unset THEN i.destination_srs ELSE i.bounds_srs

ExtentArea(i) == Abs(i.bounds[3] - i.bounds[1]) * Abs(i.bounds[4] - i.bounds[2])

\* density = (x extent / x resolution) * (y extent / y resolution), as numerator and
\* denominator over the common factor 1 / (scale of the bounds system)
DensityNum(i, srs) == ExtentArea(i) * SrsScale(srs)[1] * SrsScale(srs)[2]

DestinationDenser(i) ==
    DensityNum(i, i.destination_srs) * (i.source_x_res * i.source_y_res)
        > DensityNum(i, i.source_srs) * (i.x_res * i.y_res)

\* the resolutions of source and destination differ by one factor other than 1
DifferByFactor(i) ==
    /\ i.x_res * i.source_y_res = i.y_res * i.source_x_res
    /\ i.x_res # i.source_x_res

\* the mode chosen when source and destination resolutions change places
ModeWhenExchanged(i) ==
    Reproject(NewReprojection(DecBounds(i.bounds), DecInt(i.source_x_res),
                              DecInt(i.source_y_res), i.destination_srs, i.bounds_srs,
                              i.resampling_mode),
              SourceDataset(i.source_srs, i.x_res, i.y_res), gdalMajor).resampleAlg

\* C4: with no mode configured the warp uses 'bilinear' exactly when the destination
\* density is strictly greater than the source density and 'average' otherwise,
\* equal densities included; for one bounds and one reference system, exchanging
\* source and destination resolutions that differ by a factor flips the mode; a
\* configured mode is used unchanged.
C4_ResamplingChoice ==
    WarpDone =>
        LET i == warp.in IN
        /\ i.resampling_mode = Unset =>
               warp.out.resampleAlg =
                   IF DestinationDenser(i) THEN "bilinear" ELSE "average"
        /\ i.resampling_mode # Unset => warp.out.resampleAlg = i.resampling_mode
        /\ (i.resampling_mode = Unset /\ i.source_srs = i.destination_srs
                /\ DifferByFactor(i)) =>
               /\ ModeWhenExchanged(i) # warp.out.resampleAlg
               /\ ModeWhenExchanged(i) \in {"bilinear", "average"}

\* equal densities (same system, same resolutions) were warped with 'average'
C4_Witness ==
    /\ WarpDone /\ warp.in.resampling_mode = Unset
    /\ warp.in.source_srs = warp.in.destination_srs
    /\ warp.in.x_res = warp.in.source_x_res /\ warp.in.y_res = warp.in.source_y_res
    /\ warp.out.resampleAlg = "average"

(***************************************************************************)
(* Claim on a band none of the file references holds (Spec).               *)
(***************************************************************************)
\* no file reference of the instance has a file of the band
MissingEverywhere(o, band_name) ==
    \A i \in DOMAIN o.file_refs : Glob(disk, o.file_refs[i], band_name) = {}

\* C17: a request for a band that none of the instance's file references holds
\* fails with an error, and no mosaic exists for the band afterwards.
C17_AsStated ==
    (Called("get_band_data") /\ MissingEverywhere(objs[ret.slot], RequestedBand)) =>
        /\ ret.raised = "ValueError"
        /\ ret.built = <<>>
        /\ Len(objs[ret.slot].file_refs) > 1 => vrtFiles[RequestedPath] = Absent

\* the band is in neither folder of the instance, and the request returned the raster
\* of a mosaic that another instance had built at the same path
C17_ServedFromForeignMosaic ==
    /\ Called("get_band_data") /\ ret.raised = NoRaise
    /\ objs[ret.slot].file_refs = <<UrlB, UrlC>>
    /\ MissingEverywhere(objs[ret.slot], RequestedBand)
    /\ vrtFiles[RequestedPath] # Absent
    /\ ret.value.observations =
           ScaledData(MosaicArray(disk, vrtFiles[RequestedPath]),
                      ValidMask(MosaicArray(disk, vrtFiles[RequestedPath])),
                      PyAt(NO_DATA_VALUES, ret.args[1]))

\* where no mosaic file is at the band's path, such a request raises ValueError and
\* leaves mosaics and build counts as they were, so that the next one searches again
C17_FailsWhereNoMosaic ==
    [][\A slot \in Slots, band_index \in RequestedIndexes :
           (/\ ret'.op = "get_band_data" /\ ret'.slot = slot /\ ret'.args[1] = band_index
            /\ MissingEverywhere(objs[slot], PyAt(BAND_NAMES, band_index))
            /\ \/ Len(objs[slot].file_refs) = 1
               \/ vrtFiles[VrtFileName(objs[slot].file_refs, objs[slot].data_type,
                                       PyAt(BAND_NAMES, band_index))] = Absent) =>
               /\ ret'.raised = "ValueError"
               /\ vrtFiles' = vrtFiles /\ buildCount' = buildCount /\ objs' = objs]_vars

(***************************************************************************)
(* The observations factory (multiply_core.observations.ObservationsFactory*)
(* as test_observations.py uses it).  Its module is not part of the        *)
(* sources at hand; the factory is modelled after its contract: a registry *)
(* of creators in registration order, file references sorted by start      *)
(* time and grouped by time, one provider per group.                       *)
(***************************************************************************)
MaxRefs == 3         \* file references handed to one factory call
MaxCreators == 2     \* creators registered with the factory

\* FileRef(url, start_time, ...): the two fields the factory reads
StartTimes == 1..2
FactoryUrls == {UrlA, UrlB}
FileRefs == [url : FactoryUrls, start_time : StartTimes]

RefLists == UNION {[1..n -> FileRefs] : n \in 0..MaxRefs}

\* the creators at hand: S2ObservationsCreator, the DummyObservationsCreator of
\* test_observations.py (DUMMY_FILE is the first folder), and one whose can_read fails
CreatorNames == {"S2", "Dummy", "FailsOnB"}

UrlsOf(file_refs) == [i \in DOMAIN file_refs |-> file_refs[i].url]

\* creator.can_read(file_refs): "true", "false", or "raises"
CreatorCanRead(creator, file_refs) ==
    IF creator = "S2" THEN (IF can_read(UrlsOf(file_refs)) THEN "true" ELSE "false")
    ELSE IF creator = "Dummy"
    THEN (IF file_refs = <<>> THEN "raises"
          ELSE IF file_refs[1].url = UrlA THEN "true" ELSE "false")
    ELSE IF \E i \in DOMAIN file_refs : file_refs[i].url = UrlB THEN "raises"
    ELSE "false"

\* what a factory call gave
Given(raised, value) == [raised |-> raised, value |-> value, built |-> <<>>]

\* the list with the reference put before the first one that starts later or at the same time
InsertedBeforeEqual(sorted, file_ref) ==
    LET later == {i \in DOMAIN sorted : sorted[i].start_time >= file_ref.start_time}
        at == IF later = {} THEN Len(sorted) + 1 ELSE Min(later)
    IN  SubSeq(sorted, 1, at - 1) \o <<file_ref>> \o SubSeq(sorted, at, Len(sorted))

\* the list with the reference put before the first one that starts strictly later
Inserted(sorted, file_ref) ==
    LET later == {i \in DOMAIN sorted : sorted[i].start_time > file_ref.start_time}
        at == IF later = {} THEN Len(sorted) + 1 ELSE Min(later)
    IN  SubSeq(sorted, 1, at - 1) \o <<file_ref>> \o SubSeq(sorted, at, Len(sorted))

\* ObservationsFactory.sort_file_ref_list: ascending by start_time, stable
RECURSIVE sort_file_ref_list(_)
sort_file_ref_list(file_refs) ==
    IF file_refs = <<>> THEN <<>>
    ELSE Inserted(sort_file_ref_list(SubSeq(file_refs, 1, Len(file_refs) - 1)),
                  file_refs[Len(file_refs)])

\* the sorted references, cut where the start time changes: one group per time
RECURSIVE TimeGroups(_)
TimeGroups(sorted) ==
    IF sorted = <<>> THEN <<>>
    ELSE LET same == {i \in DOMAIN sorted :
                         \A j \in 1..i : sorted[j].start_time = sorted[1].start_time}
             n == Cardinality(same)
         IN  <<SubSeq(sorted, 1, n)>> \o TimeGroups(SubSeq(sorted, n + 1, Len(sorted)))

\* the scan stops at the first creator that does not answer false
RECURSIVE SelectCreatorAborting(_, _, _)
SelectCreatorAborting(creators, group, from) ==
    IF from > Len(creators) THEN 0
    ELSE IF CreatorCanRead(creators[from], group) = "true" THEN from
    ELSE IF CreatorCanRead(creators[from], group) = "raises" THEN 0
    ELSE SelectCreatorAborting(creators, group, from + 1)

\* the position in the registry of the first creator at or after `from` whose can_read
\* is true for the group; a creator that raises counts as not capable; 0 if there is none
RECURSIVE SelectCreator(_, _, _)
SelectCreator(creators, group, from) ==
    IF from > Len(creators) THEN 0
    ELSE IF CreatorCanRead(creators[from], group) = "true" THEN from
    ELSE SelectCreator(creators, group, from + 1)

\* what the chosen creator's create_observations gives: the provider of one group
Provider(creators, group, at) ==
    [time |-> group[1].start_time, creator |-> creators[at], at |-> at, file_refs |-> group]

\* the wrapper with no creator for a group refused: no interface is returned
RECURSIVE WrapGroupsOrFail(_, _, _)
WrapGroupsOrFail(creators, groups, wrapped) ==
    IF groups = <<>> THEN Given(NoRaise, wrapped)
    ELSE IF SelectCreator(creators, Head(groups), 1) = 0
    THEN Given("NoMatchingProviderError", None)
    ELSE WrapGroupsOrFail(creators, Tail(groups),
             Append(wrapped,
                    Provider(creators, Head(groups), SelectCreator(creators, Head(groups), 1))))

\* one provider per time group a creator reads, in time order; as in
\* test_create_observations, where the reference no creator reads ('tzzg') leaves
\* the wrapper with the one observation of the other reference
RECURSIVE WrapGroups(_, _, _)
WrapGroups(creators, groups, wrapped) ==
    IF groups = <<>> THEN Given(NoRaise, wrapped)
    ELSE IF SelectCreator(creators, Head(groups), 1) = 0
    THEN WrapGroups(creators, Tail(groups), wrapped)
    ELSE WrapGroups(creators, Tail(groups),
             Append(wrapped,
                    Provider(creators, Head(groups), SelectCreator(creators, Head(groups), 1))))

\* ObservationsFactory.create_observations(file_refs, reprojection, emulator_folder)
FactoryCreateObservations(creators, file_refs) ==
    WrapGroups(creators, TimeGroups(sort_file_ref_list(file_refs)), <<>>)

\* ObservationsFactory.add_observations_creator_to_registry
AddObservationsCreator(creator) ==
    /\ Len(registry) < MaxCreators
    /\ registry' = Append(registry, creator)
    /\ ret' = [op |-> "add_observations_creator_to_registry", slot |-> 0,
               args |-> <<creator>>, raised |-> NoRaise, value |-> None, built |-> <<>>]
    /\ UNCHANGED <<disk, vrtFiles, buildCount, objs, NO_DATA_VALUES, emu, warp, gdalMajor,
                   pc, found, fileRefs>>

FactoryReturned(op, file_refs, outcome) ==
    /\ ret' = Returned(op, 0, <<file_refs>>, outcome)
    /\ fileRefs' = sort_file_ref_list(file_refs)
    /\ UNCHANGED <<disk, vrtFiles, buildCount, objs, NO_DATA_VALUES, emu, warp, gdalMajor,
                   pc, found, registry>>

\* the caller's list is sorted in place
CallSortFileRefList(file_refs) ==
    FactoryReturned("sort_file_ref_list", file_refs,
                    Given(NoRaise, sort_file_ref_list(file_refs)))

CallFactoryCreateObservations(file_refs) ==
    FactoryReturned("create_observations", file_refs,
                    FactoryCreateObservations(registry, file_refs))

InitFactory ==
    /\ IdleObjects /\ IdleThreads
    /\ emu = None
    /\ warp = None
    /\ gdalMajor = 3
    /\ registry = <<>>
    /\ fileRefs \in RefLists

NextFactory ==
    \/ \E creator \in CreatorNames : AddObservationsCreator(creator)
    \/ CallSortFileRefList(fileRefs)
    \/ CallFactoryCreateObservations(fileRefs)

SpecFactory == InitFactory /\ [][NextFactory]_vars

(***************************************************************************)
(* Claims on the factory (SpecFactory).                                    *)
(***************************************************************************)
\* the references of the list that start at the given time, in the list's order
GroupAt(file_refs, time) ==
    LET StartsThen(file_ref) == file_ref.start_time = time
    IN  SelectSeq(file_refs, StartsThen)

\* the time groups of the references handed to the last create_observations
GroupsHandedIn == {GroupAt(ret.args[1], t) : t \in StartTimes} \ {<<>>}

Capable(at, group) == CreatorCanRead(registry[at], group) = "true"

\* C13: every provider of the returned interface was created, for its time group, by
\* the first creator in registration order whose can_read is true for the group; and
\* with two creators registered of which the first returns false or raises and the
\* second is capable for a group, the provider of the group is the second creator's.
C13_FirstCapableCreator ==
    (Called("create_observations") /\ ret.raised = NoRaise) =>
        /\ \A k \in DOMAIN ret.value :
               LET provider == ret.value[k] IN
               /\ provider.file_refs \in GroupsHandedIn
               /\ provider.at \in DOMAIN registry
               /\ provider.creator = registry[provider.at]
               /\ Capable(provider.at, provider.file_refs)
               /\ \A earlier \in 1..(provider.at - 1) : ~Capable(earlier, provider.file_refs)
        /\ \A group \in GroupsHandedIn :
               (Len(registry) = 2 /\ ~Capable(1, group) /\ Capable(2, group)) =>
                   \E k \in DOMAIN ret.value :
                       /\ ret.value[k].file_refs = group
                       /\ ret.value[k].at = 2
                       /\ ret.value[k].creator = registry[2]

\* the first creator raised for a group and the interface holds the second's provider
C13_Witness ==
    /\ Called("create_observations") /\ ret.raised = NoRaise
    /\ Len(registry) = 2
    /\ \E k \in DOMAIN ret.value :
           /\ CreatorCanRead(registry[1], ret.value[k].file_refs) = "raises"
           /\ ret.value[k].at = 2
    /\ \E k \in DOMAIN ret.value :
           /\ CreatorCanRead(registry[1], ret.value[k].file_refs) = "false"
           /\ ret.value[k].at = 2

\* C14: when no registered creator's can_read is true for one of the time groups,
\* create_observations fails with a NoMatchingProviderError.
C14_AsStated ==
    (/\ Called("create_observations")
     /\ \E group \in GroupsHandedIn : \A at \in DOMAIN registry : ~Capable(at, group)) =>
        ret.raised = "NoMatchingProviderError"

\* test_create_observations: the dummy creator alone, the dummy file and a later
\* reference it cannot read; an interface of one observation is returned
C14_GroupLeftOut ==
    /\ Called("create_observations")
    /\ registry = <<"Dummy">>
    /\ ret.args[1] = <<[url |-> UrlA, start_time |-> 1], [url |-> UrlB, start_time |-> 2]>>
    /\ ret.raised = NoRaise
    /\ Len(ret.value) = 1
    /\ ret.value[1].file_refs = <<[url |-> UrlA, start_time |-> 1]>>

\* the orders in which the list after the call can be read off the list before it
Rearrangements(before, after) ==
    {p \in [DOMAIN after -> DOMAIN before] :
        /\ \A i, j \in DOMAIN after : i # j => p[i] # p[j]
        /\ \A i \in DOMAIN after : after[i] = before[p[i]]}

\* C15: sort_file_ref_list leaves the list in ascending order of start_time, with
\* exactly the elements it had, and with references of equal start_time in the
\* relative order they had before.
C15_StableSort ==
    Called("sort_file_ref_list") =>
        LET before == ret.args[1]
            after == ret.value
        IN  /\ ret.raised = NoRaise
            /\ fileRefs = after
            /\ Len(after) = Len(before)
            /\ \A i, j \in DOMAIN after :
                   i < j => after[i].start_time <= after[j].start_time
            /\ \E p \in Rearrangements(before, after) :
                   \A i, j \in DOMAIN after :
                       (i < j /\ after[i].start_time = after[j].start_time) => p[i] < p[j]

\* a list out of order that holds two different references of one start time
C15_Witness ==
    /\ Called("sort_file_ref_list")
    /\ ret.value # ret.args[1]
    /\ \E i, j \in DOMAIN ret.args[1] :
           /\ i < j
           /\ ret.args[1][i].start_time = ret.args[1][j].start_time
           /\ ret.args[1][i].url # ret.args[1][j].url

(***************************************************************************)
(* SpecShare: two instances over the standard folders, no-data values set  *)
(* on either, band 0 requested from either.                                *)
(***************************************************************************)
\* each instance is configured with a value of its own
ShareNoDataInput(slot) == IF slot = 1 THEN DecInt(-9999) ELSE DecInt(-1)

ShareConfigs == {<<UrlA>>, <<UrlA, UrlB>>}

NextShare ==
    \/ \E slot \in Slots, file_refs \in ShareConfigs : Construct(slot, file_refs, None, Unset)
    \/ \E slot \in Slots :
           \/ CallSetNoDataValue(slot, 0, FALSE, ShareNoDataInput(slot))
           \/ CallSetNoDataValue(slot, BAND_NAMES[2], TRUE, ShareNoDataInput(slot))
    \/ \E slot \in Slots : CallGetBandData(slot, 0, FALSE)

SpecShare == Init /\ [][NextShare]_vars

\* self._no_data_values of an instance: the list bound in __init__
NoDataValuesOf(slot) == NO_DATA_VALUES

\* this step is a set_no_data_value on the instance
SetsNoDataValueOn(slot) ==
    /\ ret' # ret
    /\ ret'.op = "set_no_data_value" /\ ret'.slot = slot /\ ret'.raised = NoRaise

\* this step constructs the instance
Constructs(slot) == ~Constructed(slot) /\ objs'[slot] # Unconstructed

\* C16: a set_no_data_value on one instance leaves the no-data values of every other
\* constructed instance as they were, and an instance starts with the default values.
C16_AsStated ==
    [][\A slot \in Slots :
           /\ SetsNoDataValueOn(slot) =>
                  \A other \in Slots \ {slot} :
                      Constructed(other) => NoDataValuesOf(other)' = NoDataValuesOf(other)
           /\ Constructs(slot) => NoDataValuesOf(slot)' = DefaultNoDataValues]_vars

\* the value set on instance 1 came back in the invalid pixel of band 0 of instance 2
C16_OtherInstanceChanged ==
    /\ Called("get_band_data") /\ ret.slot = 2 /\ ret.raised = NoRaise
    /\ Constructed(1)
    /\ ret.value.mask[1] = FALSE
    /\ ret.value.observations[1] = ShareNoDataInput(1)
    /\ ShareNoDataInput(1) \notin {ShareNoDataInput(2), DefaultNoDataValues[1]}

(***************************************************************************)
(* get_mask_data_set_and_reprojection (reproject.py).  An absent argument  *)
(* is the empty sequence, a given one a sequence of one element; absent    *)
(* grids and absent paths are Unset.                                       *)
(***************************************************************************)
\* int(x) of a finite number: truncation towards zero
DecTrunc(a) ==
    LET whole == IF a.e >= 0 THEN (Abs(a.n) * Pow10(a.e)) \div a.d
                 ELSE Abs(a.n) \div (a.d * Pow10(-a.e))
    IN  Sign(a.n) * whole

DecMin(a, b) == IF DecLess(b, a) THEN b ELSE a
DecMax(a, b) == IF DecLess(a, b) THEN b ELSE a

\* the grids a caller names: WGS84 by its EPSG code and by its WKT, and two projected ones
GridNames == {"EPSG:4326", "WKT:WGS84", "EPSG:32632", "EPSG:32633"}

\* _get_reference_system: the reference system of a grid name, None for None; the
\* model's "geo" is WGS84, "utm" is UTM zone 32 north, "fine" stands for the others
GetReferenceSystem(wkt) ==
    IF wkt = Unset THEN Unset
    ELSE IF wkt \in {"EPSG:4326", "WKT:WGS84"} THEN "geo"
    ELSE IF wkt = "EPSG:32632" THEN "utm"
    ELSE "fine"

\* osr.SpatialReference.IsSame
IsSame(srs, other) == srs = other

\* _get_projected_srs: the UTM zone and the hemisphere of the centre
UtmZone(roi_center) ==
    DecTrunc(DecAdd(One, DecDiv(DecAdd(roi_center[1], DecInt(180)), DecInt(6))))

IsNorthern(roi_center) == DecPositive(roi_center[2])

SetUTM(utm_zone, is_northern) == IF utm_zone = 32 /\ is_northern THEN "utm" ELSE "fine"

GetProjectedSrs(roi_center) == SetUTM(UtmZone(roi_center), IsNorthern(roi_center))

\* a shapely polygon: a rectangle, with its bounds and its centroid
Rectangle(minx, miny, maxx, maxy) ==
    [bounds |-> DecBounds(<<minx, miny, maxx, maxy>>),
     centroid |-> <<DecDiv(DecInt(minx + maxx), DecInt(2)),
                    DecDiv(DecInt(miny + maxy), DecInt(2))>>]

\* a raster with its size
MaskDataset(array, srs, geo_transform, x_size, y_size) ==
    [array |-> array, srs |-> srs, geo_transform |-> geo_transform,
     outputBounds |-> None, outputBoundsSRS |-> Unset, resampleAlg |-> Unset,
     RasterXSize |-> x_size, RasterYSize |-> y_size]

\* _get_default_global_state_mask: 360 x 90 ones on WGS84, one degree a pixel
GetDefaultGlobalStateMask ==
    MaskDataset([p \in Pixels |-> 1], "geo",
                <<DecInt(-180), One, Zero, DecInt(90), Zero, DecInt(-1)>>, 360, 90)

\* gdal.Open(state_mask): the state mask files at hand
OpenStateMask(state_mask) ==
    IF state_mask = "mask_utm.tif"
    THEN MaskDataset([p \in Pixels |-> 1], "utm",
                     <<DecInt(4), DecInt(2), Zero, DecInt(10), Zero, DecInt(-2)>>, NPix, 3)
    ELSE MaskDataset([p \in Pixels |-> 1], "geo",
                     <<DecInt(8), One, Zero, DecInt(51), Zero, DecInt(-1)>>, NPix, 2)

\* lines 266-279: the choice with the grids swapped: an absent ROI grid refuses
DeriveGridsSwapped(roi_srs, destination_srs, roi_center) ==
    IF destination_srs = Unset THEN
        IF roi_srs = Unset
        THEN [raised |-> NoRaise, roi_srs |-> "geo", destination_srs |-> GetProjectedSrs(roi_center)]
        ELSE [raised |-> NoRaise, roi_srs |-> roi_srs, destination_srs |-> roi_srs]
    ELSE IF roi_srs = Unset THEN
        IF IsSame(destination_srs, "geo")
        THEN [raised |-> NoRaise, roi_srs |-> GetProjectedSrs(roi_center),
              destination_srs |-> destination_srs]
        ELSE [raised |-> "ValueError", roi_srs |-> roi_srs, destination_srs |-> destination_srs]
    ELSE [raised |-> NoRaise, roi_srs |-> roi_srs, destination_srs |-> destination_srs]

\* lines 266-279: the reference systems of the ROI and of the destination
DeriveGrids(roi_srs, destination_srs, roi_center) ==
    IF roi_srs = Unset THEN
        IF destination_srs = Unset
        THEN [raised |-> NoRaise, roi_srs |-> "geo", destination_srs |-> GetProjectedSrs(roi_center)]
        ELSE [raised |-> NoRaise, roi_srs |-> destination_srs, destination_srs |-> destination_srs]
    ELSE IF destination_srs = Unset THEN
        IF IsSame(roi_srs, "geo")
        THEN [raised |-> NoRaise, roi_srs |-> roi_srs,
              destination_srs |-> GetProjectedSrs(roi_center)]
        ELSE [raised |-> "ValueError", roi_srs |-> roi_srs, destination_srs |-> destination_srs]
    ELSE [raised |-> NoRaise, roi_srs |-> roi_srs, destination_srs |-> destination_srs]

\* lines 280-286, given the grids: the mask, reprojected, and the reprojection
MaskOverRoi(grids, state_mask, spatial_resolution, roi_bounds, gdal) ==
    IF grids.raised # NoRaise THEN [raised |-> grids.raised, value |-> None]
    ELSE LET mask_data_set == IF state_mask # Unset THEN OpenStateMask(state_mask)
                              ELSE GetDefaultGlobalStateMask
             reprojection == NewReprojection(roi_bounds, DecInt(spatial_resolution),
                                             DecInt(spatial_resolution),
                                             grids.destination_srs, grids.roi_srs, Unset)
         IN  [raised |-> NoRaise,
              value |-> <<Reproject(reprojection, mask_data_set, gdal), reprojection>>]

\* lines 287-299: the state mask as it is, and a reprojection onto its grid
MaskAsGiven(state_mask_data_set) ==
    LET geo_transform == state_mask_data_set.geo_transform
        ulx == geo_transform[1]
        xres == geo_transform[2]
        uly == geo_transform[4]
        yres == geo_transform[6]
        lrx == DecAdd(ulx, DecMul(DecInt(state_mask_data_set.RasterXSize), xres))
        lry == DecAdd(uly, DecMul(DecInt(state_mask_data_set.RasterYSize), yres))
        roi_bounds == <<DecMin(ulx, lrx), DecMin(uly, lry), DecMax(ulx, lrx), DecMax(uly, lry)>>
    IN  [raised |-> NoRaise,
         value |-> <<state_mask_data_set,
                     NewReprojection(roi_bounds, xres, yres, state_mask_data_set.srs,
                                     Unset, Unset)>>]

get_mask_data_set_and_reprojection(state_mask, spatial_resolution, roi, roi_grid, destination_grid, gdal) ==
    IF roi # <<>> /\ spatial_resolution # <<>>
    THEN MaskOverRoi(DeriveGrids(GetReferenceSystem(roi_grid),
                                 GetReferenceSystem(destination_grid), roi[1].centroid),
                     state_mask, spatial_resolution[1], roi[1].bounds, gdal)
    ELSE IF state_mask # Unset THEN MaskAsGiven(OpenStateMask(state_mask))
    ELSE [raised |-> "ValueError", value |-> None]

(***************************************************************************)
(* SpecMask: one call of get_mask_data_set_and_reprojection, for every     *)
(* combination of given and absent arguments.                              *)
(***************************************************************************)
StateMasks == {Unset, "mask_utm.tif", "mask_geo.tif"}

Resolutions == {<<>>} \cup {<<r>> : r \in 1..MaxRes}

\* regions in UTM zone 32 north, in zone 33 north and in zone 32 south
Rois == {<<>>, <<Rectangle(8, 49, 11, 51)>>, <<Rectangle(12, 49, 15, 51)>>,
         <<Rectangle(8, -51, 11, -49)>>}

Grids == GridNames \cup {Unset}

InitMask ==
    /\ \E state_mask \in StateMasks, spatial_resolution \in Resolutions, roi \in Rois,
          roi_grid \in Grids, destination_grid \in Grids :
           warp = [in |-> [state_mask |-> state_mask,
                           spatial_resolution |-> spatial_resolution, roi |-> roi,
                           roi_grid |-> roi_grid, destination_grid |-> destination_grid],
                   via |-> Unset, out |-> None]
    /\ gdalMajor \in {2, 3}
    /\ IdleObjects /\ IdleThreads
    /\ emu = None
    /\ registry = <<>>
    /\ fileRefs = <<>>

CallGetMaskDataSetAndReprojection ==
    /\ warp # None /\ warp.out = None
    /\ warp' = [warp EXCEPT !.out =
                   get_mask_data_set_and_reprojection(
                       warp.in.state_mask, warp.in.spatial_resolution, warp.in.roi,
                       warp.in.roi_grid, warp.in.destination_grid, gdalMajor)]
    /\ UNCHANGED <<disk, vrtFiles, buildCount, objs, NO_DATA_VALUES, ret, emu, gdalMajor,
                   pc, found, registry, fileRefs>>

NextMask == CallGetMaskDataSetAndReprojection

SpecMask == InitMask /\ [][NextMask]_vars

\* the call was made
MaskCallDone == warp # None /\ warp.out # None

WithRoiAndResolution == warp.in.roi # <<>> /\ warp.in.spatial_resolution # <<>>

IsWgs84(grid) == grid \in {"EPSG:4326", "WKT:WGS84"}

\* the reprojection returned
ReturnedReprojection == warp.out.value[2]

\* C18: with a ROI and a resolution, the call fails exactly when a ROI grid other
\* than WGS84 is given and no destination grid is; otherwise the reprojection returned
\* has as destination the given destination grid, or the UTM zone of the ROI centre
\* when none is given, and as bounds grid the given ROI grid, or the destination grid
\* when only that is given, or WGS84 when neither is; with neither a state mask nor
\* both ROI and resolution the call fails.
C18_GridDerivation ==
    MaskCallDone =>
        LET i == warp.in IN
        /\ WithRoiAndResolution =>
               /\ warp.out.raised # NoRaise <=>
                      (i.roi_grid # Unset /\ ~IsWgs84(i.roi_grid) /\ i.destination_grid = Unset)
               /\ warp.out.raised = NoRaise =>
                      /\ ReturnedReprojection.destination_srs =
                             IF i.destination_grid # Unset
                             THEN GetReferenceSystem(i.destination_grid)
                             ELSE SetUTM(UtmZone(i.roi[1].centroid),
                                         IsNorthern(i.roi[1].centroid))
                      /\ ReturnedReprojection.bounds_srs =
                             IF i.roi_grid # Unset THEN GetReferenceSystem(i.roi_grid)
                             ELSE IF i.destination_grid # Unset
                             THEN GetReferenceSystem(i.destination_grid)
                             ELSE "geo"
                      /\ ReturnedReprojection.bounds = i.roi[1].bounds
                      /\ warp.out.value[1].srs = ReturnedReprojection.destination_srs
        /\ (i.state_mask = Unset /\ ~WithRoiAndResolution) => warp.out.raised = "ValueError"
        /\ (i.state_mask # Unset /\ ~WithRoiAndResolution) => warp.out.raised = NoRaise

\* a ROI in zone 33 on WGS84 and no destination grid: the destination is the zone's grid
C18_Witness ==
    /\ MaskCallDone /\ WithRoiAndResolution
    /\ warp.in.roi_grid = "WKT:WGS84" /\ warp.in.destination_grid = Unset
    /\ warp.out.raised = NoRaise
    /\ UtmZone(warp.in.roi[1].centroid) = 33
    /\ ReturnedReprojection.destination_srs = "fine"
    /\ ReturnedReprojection.bounds_srs = "geo"

\* a projected ROI grid and no destination grid: the call raised
C18_WitnessRefused ==
    /\ MaskCallDone /\ WithRoiAndResolution
    /\ warp.in.roi_grid = "EPSG:32632" /\ warp.in.destination_grid = Unset
    /\ warp.out.raised = "ValueError"

=============================================================================
